---- MODULE Spec2Model ----
(***************************************************************************)
(* Model of the PDF comparison job of the PDF platform:                    *)
(*   - the route POST /compare (app/api/routes/compare.py),                *)
(*   - the COMPARE_PDF branch of worker_loop (app/workers/worker.py),      *)
(*   - the sequence aligner the branch calls for its line pass and its     *)
(*     word pass, difflib.SequenceMatcher(None, a, b).get_opcodes().       *)
(*                                                                         *)
(* Strings are sequences of code points (10 = "\n", 32 = " ", 65 = "A"),   *)
(* so that strip, splitlines, join and str(int) are computed, not assumed. *)
(* Indices into token sequences are 0-based and ranges half-open, as in    *)
(* the Python source.                                                      *)
(***************************************************************************)
EXTENDS Integers, Sequences, FiniteSets, TLC

VARIABLES
    uuids,               \* the ids uuid.uuid4() has not returned yet
    pdf1, pdf2,          \* the two uploaded documents: sequences of pages
    JOB_STORE,           \* job_id -> Job
    queue,               \* the in-memory queue of job ids
    pc,                  \* the worker's position inside worker_loop
    job_id,              \* the id the worker took from the queue
    exc,                 \* the exception the worker's except clause caught
    texts1, texts2,      \* extract_text_per_page of both inputs
    i,                   \* the page loop index (0-based)
    changes,             \* the change list of the line pass
    report,              \* the report dict
    left_highlights,     \* per page {"red": [...], "green": [...]}
    right_highlights,
    files,               \* the files written under the job's directory
    seq_a, seq_b,        \* a SequenceMatcher's two sequences
    opcodes,             \* and the result of its get_opcodes()
    sm_pc

jobvars == <<uuids, pdf1, pdf2, JOB_STORE, queue, pc, job_id, exc, texts1,
             texts2, i, changes, report, left_highlights, right_highlights, files>>
smvars == <<seq_a, seq_b, opcodes, sm_pc>>
vars == <<jobvars, smvars>>

----------------------------------------------------------------------------
(* Python list and str helpers *)

\* s[lo:hi] for 0 <= lo <= hi <= len(s)
Slice(s, lo, hi) == [k \in 1..(hi - lo) |-> s[lo + k]]

Max2(x, y) == IF x >= y THEN x ELSE y

\* the code points str.strip() removes (those below 256)
Whitespace == {9, 10, 11, 12, 13, 28, 29, 30, 31, 32, 133, 160}

\* the code points str.splitlines() breaks at; 13 followed by 10 is one break
LineBreaks == {10, 11, 12, 13, 28, 29, 30, 133, 8232, 8233}

RECURSIVE LStrip(_)
LStrip(s) ==
    IF s # <<>> /\ Head(s) \in Whitespace THEN LStrip(Tail(s)) ELSE s

RECURSIVE RStrip(_)
RStrip(s) ==
    IF s # <<>> /\ s[Len(s)] \in Whitespace
    THEN RStrip(SubSeq(s, 1, Len(s) - 1))
    ELSE s

\* str.strip()
Strip(s) == RStrip(LStrip(s))

\* str.splitlines(): cur is the line being read, acc the lines read so far;
\* a last line without a line break is kept, no empty line follows a final break
RECURSIVE SplitLinesFrom(_, _, _)
SplitLinesFrom(s, cur, acc) ==
    IF s = <<>> THEN (IF cur = <<>> THEN acc ELSE Append(acc, cur))
    ELSE IF Head(s) = 13 /\ Len(s) >= 2 /\ s[2] = 10
         THEN SplitLinesFrom(Tail(Tail(s)), <<>>, Append(acc, cur))
    ELSE IF Head(s) \in LineBreaks
         THEN SplitLinesFrom(Tail(s), <<>>, Append(acc, cur))
    ELSE SplitLinesFrom(Tail(s), Append(cur, Head(s)), acc)

SplitLines(s) == SplitLinesFrom(s, <<>>, <<>>)

\* "\n".join(lines)
RECURSIVE Join(_)
Join(lines) ==
    IF lines = <<>> THEN <<>>
    ELSE IF Len(lines) = 1 THEN lines[1]
    ELSE lines[1] \o <<10>> \o Join(Tail(lines))

RECURSIVE Digits(_)
Digits(n) == IF n < 10 THEN <<48 + n>> ELSE Append(Digits(n \div 10), 48 + (n % 10))

\* str(n) for an int n >= 0
Str(n) == Digits(n)

----------------------------------------------------------------------------
(* difflib.SequenceMatcher(None, a, b): isjunk is None, autojunk is left at *)
(* its default True.                                                        *)

\* autojunk applies to a second sequence of at least this many tokens
AutoJunkMinLen == 200

\* b2j[elt] before the purge: the indices of elt in b
Indices(b, elt) == {j \in 0..(Len(b) - 1) : b[j + 1] = elt}

\* __chain_b: with n >= 200 an element found more than n // 100 + 1 times
\* in b is "popular" and is purged from b2j
IsPopular(b, elt) ==
    /\ Len(b) >= AutoJunkMinLen
    /\ Cardinality(Indices(b, elt)) > (Len(b) \div 100) + 1

B2J(b, elt) == IF IsPopular(b, elt) THEN {} ELSE Indices(b, elt)

SetMax(S) == CHOOSE x \in S : \A y \in S : y <= x
SetMin(S) == CHOOSE x \in S : \A y \in S : x <= y

\* One turn of find_longest_match's loop over i: the inner loop visits the
\* j of b2j[a[i]] inside [blo, bhi) in ascending order, sets
\* newj2len[j] = j2len.get(j-1, 0) + 1 and moves best to the first j whose k
\* exceeds bestsize and then to every later j with a still larger k, that is
\* to the least j with the largest k, when that k exceeds bestsize.
NewJ2Len(a, b, ii, blo, bhi, j2len) ==
    [j \in {x \in B2J(b, a[ii + 1]) : blo <= x /\ x < bhi} |->
        (IF (j - 1) \in DOMAIN j2len THEN j2len[j - 1] ELSE 0) + 1]

BestAfter(ii, newj2len, best) ==
    IF DOMAIN newj2len = {} THEN best
    ELSE LET kmax == SetMax({newj2len[j] : j \in DOMAIN newj2len})
             jmin == SetMin({j \in DOMAIN newj2len : newj2len[j] = kmax})
         IN  IF kmax > best[3]
             THEN <<ii - kmax + 1, jmin - kmax + 1, kmax>>
             ELSE best

RECURSIVE ScanA(_, _, _, _, _, _, _, _)
ScanA(a, b, ii, ahi, blo, bhi, j2len, best) ==
    IF ii >= ahi THEN best
    ELSE LET newj2len == NewJ2Len(a, b, ii, blo, bhi, j2len)
         IN  ScanA(a, b, ii + 1, ahi, blo, bhi, newj2len,
                   BestAfter(ii, newj2len, best))

\* "Extend the best by non-junk elements on each end": bjunk is empty, so
\* every equal neighbour extends the block, a popular one too
RECURSIVE ExtendBack(_, _, _, _, _)
ExtendBack(a, b, alo, blo, m) ==
    IF m[1] > alo /\ m[2] > blo /\ a[m[1]] = b[m[2]]
    THEN ExtendBack(a, b, alo, blo, <<m[1] - 1, m[2] - 1, m[3] + 1>>)
    ELSE m

RECURSIVE ExtendFwd(_, _, _, _, _)
ExtendFwd(a, b, ahi, bhi, m) ==
    IF m[1] + m[3] < ahi /\ m[2] + m[3] < bhi
       /\ a[m[1] + m[3] + 1] = b[m[2] + m[3] + 1]
    THEN ExtendFwd(a, b, ahi, bhi, <<m[1], m[2], m[3] + 1>>)
    ELSE m

\* find_longest_match(alo, ahi, blo, bhi) -> <<besti, bestj, bestsize>>
FindLongestMatch(a, b, alo, ahi, blo, bhi) ==
    ExtendFwd(a, b, ahi, bhi,
        ExtendBack(a, b, alo, blo,
            ScanA(a, b, alo, ahi, blo, bhi, <<>>, <<alo, blo, 0>>)))

\* the while loop of get_matching_blocks: q is the list used as a stack
RECURSIVE MatchLoop(_, _, _, _)
MatchLoop(a, b, q, blocks) ==
    IF q = <<>> THEN blocks
    ELSE LET w == q[Len(q)]
             rest == SubSeq(q, 1, Len(q) - 1)
             x == FindLongestMatch(a, b, w[1], w[2], w[3], w[4])
             q1 == IF w[1] < x[1] /\ w[3] < x[2]
                   THEN Append(rest, <<w[1], x[1], w[3], x[2]>>)
                   ELSE rest
             q2 == IF x[1] + x[3] < w[2] /\ x[2] + x[3] < w[4]
                   THEN Append(q1, <<x[1] + x[3], w[2], x[2] + x[3], w[4]>>)
                   ELSE q1
         IN  IF x[3] # 0
             THEN MatchLoop(a, b, q2, Append(blocks, x))
             ELSE MatchLoop(a, b, rest, blocks)

\* tuple order of Match(a, b, size)
BlockLess(x, y) ==
    \/ x[1] < y[1]
    \/ x[1] = y[1] /\ x[2] < y[2]
    \/ x[1] = y[1] /\ x[2] = y[2] /\ x[3] < y[3]

RECURSIVE InsertBlock(_, _)
InsertBlock(x, sorted) ==
    IF sorted = <<>> THEN <<x>>
    ELSE IF BlockLess(x, Head(sorted)) THEN <<x>> \o sorted
    ELSE <<Head(sorted)>> \o InsertBlock(x, Tail(sorted))

\* matching_blocks.sort()
RECURSIVE SortBlocks(_)
SortBlocks(blocks) ==
    IF blocks = <<>> THEN <<>>
    ELSE InsertBlock(Head(blocks), SortBlocks(Tail(blocks)))

\* the collapse of adjacent blocks: cur is (i1, j1, k1)
RECURSIVE Collapse(_, _, _)
Collapse(blocks, cur, acc) ==
    IF blocks = <<>>
    THEN (IF cur[3] # 0 THEN Append(acc, cur) ELSE acc)
    ELSE LET x == Head(blocks)
         IN  IF cur[1] + cur[3] = x[1] /\ cur[2] + cur[3] = x[2]
             THEN Collapse(Tail(blocks), <<cur[1], cur[2], cur[3] + x[3]>>, acc)
             ELSE Collapse(Tail(blocks), x,
                           IF cur[3] # 0 THEN Append(acc, cur) ELSE acc)

\* Faulty variant: the sentinel (la, lb, 0) is not appended
GetMatchingBlocks_NoSentinel(a, b) ==
    Collapse(SortBlocks(MatchLoop(a, b, <<<<0, Len(a), 0, Len(b)>>>>, <<>>)),
             <<0, 0, 0>>, <<>>)

\* get_matching_blocks(): the last block is the sentinel (la, lb, 0)
GetMatchingBlocks(a, b) ==
    Append(Collapse(SortBlocks(MatchLoop(a, b, <<<<0, Len(a), 0, Len(b)>>>>, <<>>)),
                    <<0, 0, 0>>, <<>>),
           <<Len(a), Len(b), 0>>)

Opcode(tag, i1, i2, j1, j2) == [tag |-> tag, i1 |-> i1, i2 |-> i2, j1 |-> j1, j2 |-> j2]

\* Faulty variant: the tests for "delete" and "insert" are exchanged
GapTag_Swapped(ii, ai, jj, bj) ==
    IF ii < ai /\ jj < bj THEN "replace"
    ELSE IF jj < bj THEN "delete"
    ELSE IF ii < ai THEN "insert"
    ELSE ""

\* the tag get_opcodes gives the gap a[ii:ai], b[jj:bj]; "" is no opcode
GapTag(ii, ai, jj, bj) ==
    IF ii < ai /\ jj < bj THEN "replace"
    ELSE IF ii < ai THEN "delete"
    ELSE IF jj < bj THEN "insert"
    ELSE ""

\* Faulty variant: a block of size 0 (the sentinel) gives an "equal" opcode too
RECURSIVE OpcodesFrom_EmptyEqual(_, _, _, _)
OpcodesFrom_EmptyEqual(blocks, ii, jj, answer) ==
    IF blocks = <<>> THEN answer
    ELSE LET x == Head(blocks)
             tag == GapTag(ii, x[1], jj, x[2])
             ans1 == IF tag # "" THEN Append(answer, Opcode(tag, ii, x[1], jj, x[2]))
                     ELSE answer
             ans2 == Append(ans1, Opcode("equal", x[1], x[1] + x[3], x[2], x[2] + x[3]))
         IN  OpcodesFrom_EmptyEqual(Tail(blocks), x[1] + x[3], x[2] + x[3], ans2)

\* Faulty variant: a gap with tokens on both sides gives a "delete" followed
\* by an "insert"
RECURSIVE OpcodesFrom_DeleteInsert(_, _, _, _)
OpcodesFrom_DeleteInsert(blocks, ii, jj, answer) ==
    IF blocks = <<>> THEN answer
    ELSE LET x == Head(blocks)
             tag == GapTag(ii, x[1], jj, x[2])
             ans1 == IF tag = "replace"
                     THEN answer \o <<Opcode("delete", ii, x[1], jj, jj),
                                      Opcode("insert", x[1], x[1], jj, x[2])>>
                     ELSE IF tag # "" THEN Append(answer, Opcode(tag, ii, x[1], jj, x[2]))
                     ELSE answer
             ans2 == IF x[3] # 0
                     THEN Append(ans1, Opcode("equal", x[1], x[1] + x[3], x[2], x[2] + x[3]))
                     ELSE ans1
         IN  OpcodesFrom_DeleteInsert(Tail(blocks), x[1] + x[3], x[2] + x[3], ans2)

RECURSIVE OpcodesFrom(_, _, _, _)
OpcodesFrom(blocks, ii, jj, answer) ==
    IF blocks = <<>> THEN answer
    ELSE LET x == Head(blocks)
             tag == GapTag(ii, x[1], jj, x[2])
             ans1 == IF tag # "" THEN Append(answer, Opcode(tag, ii, x[1], jj, x[2]))
                     ELSE answer
             ans2 == IF x[3] # 0
                     THEN Append(ans1, Opcode("equal", x[1], x[1] + x[3], x[2], x[2] + x[3]))
                     ELSE ans1
         IN  OpcodesFrom(Tail(blocks), x[1] + x[3], x[2] + x[3], ans2)

\* SequenceMatcher(None, a, b).get_opcodes()
GetOpcodes(a, b) == OpcodesFrom(GetMatchingBlocks(a, b), 0, 0, <<>>)

----------------------------------------------------------------------------
(* The COMPARE_PDF branch of worker_loop: pure parts *)

None == "None"

\* a local name of worker_loop that no statement has bound yet
Unbound == [unbound |-> TRUE]

\* extract_text_per_page: (page.extract_text() or "").strip() for each page
ExtractTextPerPage(pdf) == [p \in 1..Len(pdf) |-> Strip(pdf[p].text)]

\* t.splitlines() if t else []
LinesOf(t) == IF t # <<>> THEN SplitLines(t) ELSE <<>>

Change(page, type, text) == [page |-> page, type |-> type, text |-> text]

\* Faulty variant: the blobs are tested without .strip()
EmitChanges_NoStrip(op, lines1, lines2, page_num) ==
    LET old_blob == Join(Slice(lines1, op.i1, op.i2))
        new_blob == Join(Slice(lines2, op.j1, op.j2))
        rem == IF old_blob # <<>> THEN <<Change(page_num, "remove", old_blob)>> ELSE <<>>
        add == IF new_blob # <<>> THEN <<Change(page_num, "add", new_blob)>> ELSE <<>>
    IN  IF op.tag = "replace" THEN rem \o add
        ELSE IF op.tag = "delete" THEN rem
        ELSE IF op.tag = "insert" THEN add
        ELSE <<>>

\* Faulty variant: for "replace" the "add" change comes before the "remove"
EmitChanges_AddFirst(op, lines1, lines2, page_num) ==
    LET old_blob == Join(Slice(lines1, op.i1, op.i2))
        new_blob == Join(Slice(lines2, op.j1, op.j2))
        rem == IF Strip(old_blob) # <<>> THEN <<Change(page_num, "remove", old_blob)>> ELSE <<>>
        add == IF Strip(new_blob) # <<>> THEN <<Change(page_num, "add", new_blob)>> ELSE <<>>
    IN  IF op.tag = "replace" THEN add \o rem
        ELSE IF op.tag = "delete" THEN rem
        ELSE IF op.tag = "insert" THEN add
        ELSE <<>>

\* what one opcode of the line pass appends to changes
EmitChanges(op, lines1, lines2, page_num) ==
    LET old_blob == Join(Slice(lines1, op.i1, op.i2))
        new_blob == Join(Slice(lines2, op.j1, op.j2))
        rem == IF Strip(old_blob) # <<>> THEN <<Change(page_num, "remove", old_blob)>> ELSE <<>>
        add == IF Strip(new_blob) # <<>> THEN <<Change(page_num, "add", new_blob)>> ELSE <<>>
    IN  IF op.tag = "replace" THEN rem \o add
        ELSE IF op.tag = "delete" THEN rem
        ELSE IF op.tag = "insert" THEN add
        ELSE <<>>

\* the for loop over matcher.get_opcodes() of the line pass
RECURSIVE ChangesOfOpcodes(_, _, _, _, _)
ChangesOfOpcodes(ops, lines1, lines2, page_num, acc) ==
    IF ops = <<>> THEN acc
    ELSE ChangesOfOpcodes(Tail(ops), lines1, lines2, page_num,
                          acc \o EmitChanges(Head(ops), lines1, lines2, page_num))

\* texts[i] if i < len(texts) else ""
TextAt(texts, ii) == IF ii < Len(texts) THEN texts[ii + 1] ELSE <<>>

\* Faulty variant: the changes of a page are put before those of the pages before it
LineDiffPage_Prepend(chg, t1s, t2s, ii) ==
    LET lines1 == LinesOf(TextAt(t1s, ii))
        lines2 == LinesOf(TextAt(t2s, ii))
    IN  ChangesOfOpcodes(GetOpcodes(lines1, lines2), lines1, lines2, ii + 1, <<>>) \o chg

\* Faulty variant: a page leaves out a change whose text an earlier turn has
\* already put on the list
LineDiffPage_SkipSeen(chg, t1s, t2s, ii) ==
    LET lines1 == LinesOf(TextAt(t1s, ii))
        lines2 == LinesOf(TextAt(t2s, ii))
        Unseen(c) == \A k \in 1..Len(chg) : chg[k].text # c.text
    IN  chg \o SelectSeq(ChangesOfOpcodes(GetOpcodes(lines1, lines2),
                                          lines1, lines2, ii + 1, <<>>), Unseen)

\* one turn of "for i in range(max_pages)" of the line pass
LineDiffPage(chg, t1s, t2s, ii) ==
    LET lines1 == LinesOf(TextAt(t1s, ii))
        lines2 == LinesOf(TextAt(t2s, ii))
    IN  ChangesOfOpcodes(GetOpcodes(lines1, lines2), lines1, lines2, ii + 1, chg)

\* Faulty variant: by_page[p] = 1 in place of by_page.get(p, 0) + 1
RECURSIVE ByPage_Overwrite(_, _)
ByPage_Overwrite(chg, acc) ==
    IF chg = <<>> THEN acc
    ELSE LET p == Str(Head(chg).page)
         IN  ByPage_Overwrite(Tail(chg),
                    [k \in DOMAIN acc \cup {p} |-> IF k = p THEN 1 ELSE acc[k]])

\* the loop "for c in changes" that fills summary.by_page, keyed by str(page)
RECURSIVE ByPage(_, _)
ByPage(chg, acc) ==
    IF chg = <<>> THEN acc
    ELSE LET p == Str(Head(chg).page)
             n == IF p \in DOMAIN acc THEN acc[p] ELSE 0
         IN  ByPage(Tail(chg),
                    [k \in DOMAIN acc \cup {p} |-> IF k = p THEN n + 1 ELSE acc[k]])

\* Faulty variant: only the "add" changes are kept
BuildReport_AddsOnly(chg) ==
    LET IsAdd(c) == c.type = "add"
        kept == SelectSeq(chg, IsAdd)
    IN  [changes |-> kept,
         summary |-> [total |-> Len(kept), by_page |-> ByPage(kept, <<>>)]]

\* report = {"changes": changes, "summary": {...}} and the by_page loop
BuildReport(chg) ==
    [changes |-> chg,
     summary |-> [total |-> Len(chg), by_page |-> ByPage(chg, <<>>)]]

\* the blocks report.txt holds after its two header lines
ReportTxt(chg) ==
    [k \in 1..Len(chg) |->
        [page |-> chg[k].page,
         label |-> IF chg[k].type = "remove" THEN "Removed" ELSE "Added",
         text |-> chg[k].text]]

\* pdf.pages[i].extract_words() or [], [] for a page the document lacks
WordsAt(pdf, ii) == IF ii < Len(pdf) THEN pdf[ii + 1].words ELSE <<>>

\* Faulty variant: the words themselves, bounding box included, are the tokens
WordTexts_WithBox(words) == [k \in 1..Len(words) |-> words[k]]

\* Faulty variant: a word's token is its text together with its top edge
WordTexts_WithTop(words) == [k \in 1..Len(words) |-> <<words[k].text, words[k].top>>]

\* [w.get("text", "") for w in words]
WordTexts(words) == [k \in 1..Len(words) |-> words[k].text]

\* (float(w["x0"]), float(w["top"]), float(w["x1"]), float(w["bottom"]))
Rect(w) == <<w.x0, w.top, w.x1, w.bottom>>

\* the rectangles of words[lo:hi], in word order
RectsOf(words, lo, hi) == [k \in 1..(hi - lo) |-> Rect(words[lo + k])]

\* Faulty variant: "replace" is left out of the test
RedOf_DeleteOnly(op, words_left) ==
    IF op.tag \in {"delete"} /\ op.i1 < op.i2
    THEN RectsOf(words_left, op.i1, op.i2) ELSE <<>>

\* what one opcode of the word pass appends to left_highlights[i]["red"]
RedOf(op, words_left) ==
    IF op.tag \in {"delete", "replace"} /\ op.i1 < op.i2
    THEN RectsOf(words_left, op.i1, op.i2) ELSE <<>>

\* Faulty variant: "replace" is left out of the test of the right side
GreenOf_InsertOnly(op, words_right) ==
    IF op.tag \in {"insert"} /\ op.j1 < op.j2
    THEN RectsOf(words_right, op.j1, op.j2) ELSE <<>>

\* what one opcode of the word pass appends to right_highlights[i]["green"]
GreenOf(op, words_right) ==
    IF op.tag \in {"insert", "replace"} /\ op.j1 < op.j2
    THEN RectsOf(words_right, op.j1, op.j2) ELSE <<>>

RECURSIVE RedOfOpcodes(_, _, _)
RedOfOpcodes(ops, words_left, acc) ==
    IF ops = <<>> THEN acc
    ELSE RedOfOpcodes(Tail(ops), words_left, acc \o RedOf(Head(ops), words_left))

RECURSIVE GreenOfOpcodes(_, _, _)
GreenOfOpcodes(ops, words_right, acc) ==
    IF ops = <<>> THEN acc
    ELSE GreenOfOpcodes(Tail(ops), words_right, acc \o GreenOf(Head(ops), words_right))

\* the opcodes of the word pass for page index ii
WordOpcodes(d1, d2, ii) ==
    GetOpcodes(WordTexts(WordsAt(d1, ii)), WordTexts(WordsAt(d2, ii)))

EmptyHighlights(n) == [p \in 1..n |-> [red |-> <<>>, green |-> <<>>]]

\* merge_highlight_into_pdf: page i of the output carries the red and the
\* green rectangles of page_highlights[i]; a page past the list carries none
MergeHighlightIntoPdf(pdf, page_highlights) ==
    [p \in 1..Len(pdf) |->
        IF p > Len(page_highlights)
        THEN [page |-> pdf[p], red |-> <<>>, green |-> <<>>]
        ELSE [page |-> pdf[p], red |-> page_highlights[p].red,
              green |-> page_highlights[p].green]]

----------------------------------------------------------------------------
(* Inputs *)

MaxPages == 2        \* pages per document in Spec
MaxLines == 3        \* lines per page text in PageSpec
MaxWords == 2        \* words per page in PageSpec
MaxLen == 3          \* tokens per sequence in AlignSpec

Hello == <<104, 101, 108, 108, 111>>
World == <<119, 111, 114, 108, 100>>
There == <<116, 104, 101, 114, 101>>

Word(text, x0, top, x1, bottom) ==
    [text |-> text, x0 |-> x0, top |-> top, x1 |-> x1, bottom |-> bottom]

Page(text, words) == [text |-> text, words |-> words]

\* sequences over S of length 0..n
SeqsUpTo(S, n) == UNION {[1..k -> S] : k \in 0..n}

\* the pages of the documents of Spec: the lines "hello" and "world";
\* "hello" and "there"; "hello" and "world" again with every word moved
\* right; "world" and "hello" (blank pages are among those of PageSpec)
SamplePages ==
    { Page(Hello \o <<10>> \o World \o <<10>>,
           <<Word(Hello, 0, 0, 5, 1), Word(World, 0, 1, 5, 2)>>),
      Page(Hello \o <<10>> \o There,
           <<Word(Hello, 0, 0, 5, 1), Word(There, 0, 1, 5, 2)>>),
      Page(Hello \o <<10>> \o World \o <<10>>,
           <<Word(Hello, 1, 0, 6, 1), Word(World, 1, 1, 6, 2)>>),
      Page(World \o <<10>> \o Hello,
           <<Word(World, 0, 0, 5, 1), Word(Hello, 0, 1, 5, 2)>>) }

Docs == SeqsUpTo(SamplePages, MaxPages)

\* PageSpec: one page per document, its text any lines "A", "B" and " " joined
\* by "\n" ...
LineTokens == {<<65>>, <<66>>, <<32>>}
PageTexts == {Join(ls) : ls \in SeqsUpTo(LineTokens, MaxLines)}

\* ... or its words any list over these words
SampleWords ==
    { Word(Hello, 0, 0, 5, 1), Word(World, 6, 0, 11, 1),
      Word(There, 6, 0, 11, 1), Word(Hello, 0, 1, 5, 2) }
PageWords == SeqsUpTo(SampleWords, MaxWords)

\* AlignSpec: every token sequence over three one-letter tokens, and for the
\* second sequence also a long one: a short sequence followed by LongTail,
\* a token found four times and distinct tokens up to AutoJunkMinLen
Tokens == {<<97>>, <<98>>, <<99>>}
ShortSeqs == SeqsUpTo(Tokens, MaxLen)
PopularCount == 4
LongTail == [k \in 1..AutoJunkMinLen |-> IF k <= PopularCount THEN <<97>> ELSE <<1000 + k>>]

JOB_ID == "job-1"
\* a second id, for the specification in which the documents are uploaded twice
JOB_ID_2 == "job-2"
\* the documents of that specification: no page or one page
\* every id uuid.uuid4() returns in a run
JobIds == {JOB_ID, JOB_ID_2}

ShortDocs == {<<>>} \cup {<<page>> : page \in SamplePages}
\* the names of the two uploads, each split at its extension
InputFilenames == <<[stem |-> "a", ext |-> ".pdf"], [stem |-> "b", ext |-> ".pdf"]>>

----------------------------------------------------------------------------
(* State *)

PENDING == "pending"
PROCESSING == "processing"
COMPLETED == "completed"
FAILED == "failed"

\* f"/tmp/pdf-jobs/{job_id}/{name}"
PathOf(id, name) == <<id, name>>

NoJob ==
    /\ JOB_STORE = <<>>
    /\ queue = <<>>
    /\ pc = "get"
    /\ job_id = None
    /\ exc = None
    /\ texts1 = <<>> /\ texts2 = <<>>
    /\ i = 0
    /\ changes = <<>>
    /\ report = Unbound
    /\ left_highlights = <<>> /\ right_highlights = <<>>
    /\ files = <<>>

NoMatcher == seq_a = <<>> /\ seq_b = <<>> /\ opcodes = <<>> /\ sm_pc = "unused"

Init ==
    /\ uuids = {JOB_ID}
    /\ pdf1 \in Docs /\ pdf2 \in Docs
    /\ NoJob /\ NoMatcher

InitPage ==
    /\ uuids = {JOB_ID}
    /\ \/ \E t1 \in PageTexts, t2 \in PageTexts :
             pdf1 = <<Page(t1, <<>>)>> /\ pdf2 = <<Page(t2, <<>>)>>
       \/ \E w1 \in PageWords, w2 \in PageWords :
             pdf1 = <<Page(<<>>, w1)>> /\ pdf2 = <<Page(<<>>, w2)>>
    /\ NoJob /\ NoMatcher

\* the same two documents are uploaded twice, as two jobs
InitTwice ==
    /\ uuids = {JOB_ID, JOB_ID_2}
    /\ pdf1 \in ShortDocs /\ pdf2 \in ShortDocs
    /\ NoJob /\ NoMatcher

InitAlign ==
    /\ seq_a \in ShortSeqs
    /\ seq_b \in ShortSeqs \cup {s \o LongTail : s \in ShortSeqs}
    /\ opcodes = <<>>
    /\ sm_pc = "new"
    /\ uuids = {JOB_ID}
    /\ pdf1 = <<>> /\ pdf2 = <<>>
    /\ NoJob

----------------------------------------------------------------------------
(* Actions *)

\* d with d[k] = v
Put(d, k, v) == [x \in DOMAIN d \cup {k} |-> IF x = k THEN v ELSE d[x]]

Job(id) ==
    [job_id |-> id,
     job_type |-> "compare_pdf",
     status |-> PENDING,
     input_paths |-> <<PathOf(id, "input_0.pdf"), PathOf(id, "input_1.pdf")>>,
     output_path |-> PathOf(id, "compare_result.zip"),
     params |-> [input_filenames |-> InputFilenames],
     error |-> None,
     output_filename |-> None]

\* Faulty variant: the id is put on the queue and the Job is not stored
compare_pdfs_QueueOnly ==
    /\ sm_pc = "unused"
    /\ \E id \in uuids :
          /\ uuids' = uuids \ {id}
          /\ files' = Put(Put(files, PathOf(id, "input_0.pdf"), pdf1),
                          PathOf(id, "input_1.pdf"), pdf2)
          /\ queue' = Append(queue, id)
    /\ UNCHANGED <<pdf1, pdf2, JOB_STORE, pc, job_id, exc, texts1, texts2, i, changes,
                   report, left_highlights, right_highlights, smvars>>

\* POST /compare with two valid PDF uploads: the inputs are saved, the Job is
\* stored, and only then is its id put on the queue
compare_pdfs ==
    /\ sm_pc = "unused"
    /\ \E id \in uuids :
          /\ uuids' = uuids \ {id}
          /\ files' = Put(Put(files, PathOf(id, "input_0.pdf"), pdf1),
                          PathOf(id, "input_1.pdf"), pdf2)
          /\ JOB_STORE' = Put(JOB_STORE, id, Job(id))
          /\ queue' = Append(queue, id)
    /\ UNCHANGED <<pdf1, pdf2, pc, job_id, exc, texts1, texts2, i, changes, report,
                   left_highlights, right_highlights, smvars>>

job == JOB_STORE[job_id]
SetJob(field, value) == [JOB_STORE EXCEPT ![job_id] = Put(@, field, value)]
input0 == files[job.input_paths[1]]
input1 == files[job.input_paths[2]]
\* Faulty variant: one directory for the results of every job
base_dir_Shared == JOB_ID

\* os.path.dirname(job.output_path)
base_dir == job.output_path[1]
\* Faulty variant: min in place of max
max_pages_Min == IF Len(texts1) <= Len(texts2) THEN Len(texts1) ELSE Len(texts2)

\* max_pages = max(len(texts1), len(texts2))
max_pages == Max2(Len(texts1), Len(texts2))

locals == <<texts1, texts2, i, changes, report, left_highlights, right_highlights>>

\* job_id = await queue.get(); job = JOB_STORE[job_id]; job.status = PROCESSING
worker_get ==
    /\ pc = "get"
    /\ queue # <<>>
    /\ job_id' = Head(queue)
    /\ queue' = Tail(queue)
    /\ JOB_STORE' = [JOB_STORE EXCEPT ![Head(queue)] = Put(@, "status", PROCESSING)]
    /\ pc' = "import"
    /\ UNCHANGED <<uuids, pdf1, pdf2, exc, locals, files, smvars>>

\* "except Exception as e: job.status = JobStatus.FAILED", first statement
Raise(msg) ==
    /\ JOB_STORE' = SetJob("status", FAILED)
    /\ exc' = msg
    /\ pc' = "except"

\* import pdfplumber, reportlab
import_ok ==
    /\ pc = "import"
    /\ job.job_type = "compare_pdf"
    /\ pc' = "extract_text"
    /\ UNCHANGED <<uuids, pdf1, pdf2, JOB_STORE, queue, job_id, exc, locals, files, smvars>>

import_error ==
    /\ pc = "import"
    /\ job.job_type = "compare_pdf"
    /\ Raise("Compare PDF requires pdfplumber and reportlab")
    /\ UNCHANGED <<uuids, pdf1, pdf2, queue, job_id, locals, files, smvars>>

\* Faulty variant: changes is not emptied, so it keeps what the job before
\* this one left in it
extract_text_NoReset ==
    /\ pc = "extract_text"
    /\ texts1' = ExtractTextPerPage(input0)
    /\ texts2' = ExtractTextPerPage(input1)
    /\ i' = 0
    /\ pc' = "line_pass"
    /\ UNCHANGED <<uuids, pdf1, pdf2, JOB_STORE, queue, job_id, exc, changes, report,
                   left_highlights, right_highlights, files, smvars>>

\* texts1, texts2 = extract_text_per_page(...); changes = []
extract_text ==
    /\ pc = "extract_text"
    /\ texts1' = ExtractTextPerPage(input0)
    /\ texts2' = ExtractTextPerPage(input1)
    /\ changes' = <<>>
    /\ i' = 0
    /\ pc' = "line_pass"
    /\ UNCHANGED <<uuids, pdf1, pdf2, JOB_STORE, queue, job_id, exc, report,
                   left_highlights, right_highlights, files, smvars>>

\* pdfplumber fails on one of the inputs
extract_text_error ==
    /\ pc = "extract_text"
    /\ Raise("extract_text")
    /\ UNCHANGED <<uuids, pdf1, pdf2, queue, job_id, locals, files, smvars>>

\* one turn of the line pass
line_diff_page ==
    /\ pc = "line_pass"
    /\ i < max_pages
    /\ changes' = LineDiffPage(changes, texts1, texts2, i)
    /\ i' = i + 1
    /\ UNCHANGED <<uuids, pdf1, pdf2, JOB_STORE, queue, pc, job_id, exc, texts1, texts2,
                   report, left_highlights, right_highlights, files, smvars>>

\* report = {...}; for c in changes: by_page[str(page)] += 1
build_report ==
    /\ pc = "line_pass"
    /\ i >= max_pages
    /\ report' = BuildReport(changes)
    /\ pc' = "write_json"
    /\ UNCHANGED <<uuids, pdf1, pdf2, JOB_STORE, queue, job_id, exc, texts1, texts2, i,
                   changes, left_highlights, right_highlights, files, smvars>>

\* json.dump(report, f)
write_report_json ==
    /\ pc = "write_json"
    /\ files' = Put(files, PathOf(base_dir, "report.json"), report)
    /\ pc' = "write_txt"
    /\ UNCHANGED <<uuids, pdf1, pdf2, JOB_STORE, queue, job_id, exc, locals, smvars>>

write_report_txt ==
    /\ pc = "write_txt"
    /\ files' = Put(files, PathOf(base_dir, "report.txt"),
                    [total |-> Len(changes), blocks |-> ReportTxt(changes)])
    /\ pc' = "extract_words"
    /\ UNCHANGED <<uuids, pdf1, pdf2, JOB_STORE, queue, job_id, exc, locals, smvars>>

\* words1, words2 = extract_words_per_page(...) (not used afterwards), the
\* highlight lists, and the opening of both inputs for the word pass
extract_words ==
    /\ pc = "extract_words"
    /\ left_highlights' = EmptyHighlights(max_pages)
    /\ right_highlights' = EmptyHighlights(max_pages)
    /\ i' = 0
    /\ pc' = "word_pass"
    /\ UNCHANGED <<uuids, pdf1, pdf2, JOB_STORE, queue, job_id, exc, texts1, texts2,
                   changes, report, files, smvars>>

extract_words_error ==
    /\ pc = "extract_words"
    /\ Raise("extract_words")
    /\ UNCHANGED <<uuids, pdf1, pdf2, queue, job_id, locals, files, smvars>>

\* Faulty variant: the rectangles of the right words go to the "red" list
word_diff_page_RedRight ==
    /\ pc = "word_pass"
    /\ i < max_pages
    /\ LET ops == WordOpcodes(input0, input1, i)
       IN  /\ left_highlights' =
                [left_highlights EXCEPT ![i + 1].red =
                    RedOfOpcodes(ops, WordsAt(input0, i), @)]
           /\ right_highlights' =
                [right_highlights EXCEPT ![i + 1].red =
                    GreenOfOpcodes(ops, WordsAt(input1, i), @)]
    /\ i' = i + 1
    /\ UNCHANGED <<uuids, pdf1, pdf2, JOB_STORE, queue, pc, job_id, exc, texts1, texts2,
                   changes, report, files, smvars>>

\* one turn of the word pass
word_diff_page ==
    /\ pc = "word_pass"
    /\ i < max_pages
    /\ LET ops == WordOpcodes(input0, input1, i)
       IN  /\ left_highlights' =
                [left_highlights EXCEPT ![i + 1].red =
                    RedOfOpcodes(ops, WordsAt(input0, i), @)]
           /\ right_highlights' =
                [right_highlights EXCEPT ![i + 1].green =
                    GreenOfOpcodes(ops, WordsAt(input1, i), @)]
    /\ i' = i + 1
    /\ UNCHANGED <<uuids, pdf1, pdf2, JOB_STORE, queue, pc, job_id, exc, texts1, texts2,
                   changes, report, files, smvars>>

\* page.extract_words() fails inside the word pass
word_diff_error ==
    /\ pc = "word_pass"
    /\ i < max_pages
    /\ Raise("extract_words")
    /\ UNCHANGED <<uuids, pdf1, pdf2, queue, job_id, locals, files, smvars>>

\* Faulty variant: the word pass may be left before its last page
word_pass_done_Early ==
    /\ pc = "word_pass"
    /\ pc' = "render_left"
    /\ UNCHANGED <<uuids, pdf1, pdf2, JOB_STORE, queue, job_id, exc, locals, files, smvars>>

\* the end of "for i in range(max_pages)" of the word pass
word_pass_done ==
    /\ pc = "word_pass"
    /\ i >= max_pages
    /\ pc' = "render_left"
    /\ UNCHANGED <<uuids, pdf1, pdf2, JOB_STORE, queue, job_id, exc, locals, files, smvars>>

\* merge_highlight_into_pdf(job.input_paths[0], left_pdf_path, left_highlights)
render_left ==
    /\ pc = "render_left"
    /\ files' = Put(files, PathOf(base_dir, "left.pdf"),
                    MergeHighlightIntoPdf(input0, left_highlights))
    /\ pc' = "render_right"
    /\ UNCHANGED <<uuids, pdf1, pdf2, JOB_STORE, queue, job_id, exc, locals, smvars>>

render_right ==
    /\ pc = "render_right"
    /\ files' = Put(files, PathOf(base_dir, "right.pdf"),
                    MergeHighlightIntoPdf(input1, right_highlights))
    /\ pc' = "zip"
    /\ UNCHANGED <<uuids, pdf1, pdf2, JOB_STORE, queue, job_id, exc, locals, smvars>>

\* pypdf or reportlab fails while the rectangles are merged in
render_error ==
    /\ pc \in {"render_left", "render_right"}
    /\ Raise("render")
    /\ UNCHANGED <<uuids, pdf1, pdf2, queue, job_id, locals, files, smvars>>

\* zipf.write(path, arcname): one more entry at the end of the archive
ZipWrite(zipf, path, arcname) ==
    Append(zipf, [name |-> arcname, data |-> files[path]])

\* Faulty variant: report.txt is not put into the archive
ZipEntries_NoTxt ==
    ZipWrite(ZipWrite(ZipWrite(<<>>,
        PathOf(base_dir, "report.json"), "report.json"),
        PathOf(base_dir, "left.pdf"), "left.pdf"),
        PathOf(base_dir, "right.pdf"), "right.pdf")

\* the four zipf.write calls on the new archive, in their order
ZipEntries ==
    ZipWrite(ZipWrite(ZipWrite(ZipWrite(<<>>,
        PathOf(base_dir, "report.json"), "report.json"),
        PathOf(base_dir, "report.txt"), "report.txt"),
        PathOf(base_dir, "left.pdf"), "left.pdf"),
        PathOf(base_dir, "right.pdf"), "right.pdf")

write_zip ==
    /\ pc = "zip"
    /\ files' = Put(files, PathOf(base_dir, "compare_result.zip"), ZipEntries)
    /\ pc' = "publish"
    /\ UNCHANGED <<uuids, pdf1, pdf2, JOB_STORE, queue, job_id, exc, locals, smvars>>

\* Faulty variant: params is left as the route made it
publish_OutputPathOnly ==
    /\ pc = "publish"
    /\ JOB_STORE' = SetJob("output_path", PathOf(base_dir, "compare_result.zip"))
    /\ pc' = "filename"
    /\ UNCHANGED <<uuids, pdf1, pdf2, queue, job_id, exc, locals, files, smvars>>

\* job.output_path = zip_path; job.params[...] = ...
publish ==
    /\ pc = "publish"
    /\ JOB_STORE' =
         [JOB_STORE EXCEPT ![job_id] =
            Put(Put(@, "output_path", PathOf(base_dir, "compare_result.zip")),
                "params",
                Put(Put(Put(job.params, "left_pdf", PathOf(base_dir, "left.pdf")),
                        "right_pdf", PathOf(base_dir, "right.pdf")),
                    "report_path", PathOf(base_dir, "report.json")))]
    /\ pc' = "filename"
    /\ UNCHANGED <<uuids, pdf1, pdf2, queue, job_id, exc, locals, files, smvars>>

\* make_output_filename for a compare job whose output_path ends in ".zip":
\* the base of the first input name, JOB_SUFFIX, the extension
MakeOutputFilename(input_filenames) ==
    (IF input_filenames = <<>> THEN "document" ELSE input_filenames[1].stem)
        \o "_compare" \o ".zip"

set_output_filename ==
    /\ pc = "filename"
    /\ JOB_STORE' = SetJob("output_filename",
                           MakeOutputFilename(job.params.input_filenames))
    /\ pc' = "complete"
    /\ UNCHANGED <<uuids, pdf1, pdf2, queue, job_id, exc, locals, files, smvars>>

\* Faulty variant: the branch ends without writing the status
complete_NoStatus ==
    /\ pc = "complete"
    /\ pc' = "get"
    /\ UNCHANGED <<uuids, pdf1, pdf2, JOB_STORE, queue, job_id, exc, locals, files, smvars>>

\* job.status = JobStatus.COMPLETED
complete ==
    /\ pc = "complete"
    /\ JOB_STORE' = SetJob("status", COMPLETED)
    /\ pc' = "get"
    /\ UNCHANGED <<uuids, pdf1, pdf2, queue, job_id, exc, locals, files, smvars>>

\* Faulty variant: the failed job is put on the queue again
set_error_Retry ==
    /\ pc = "except"
    /\ JOB_STORE' = SetJob("error", exc)
    /\ queue' = Append(queue, job_id)
    /\ pc' = "get"
    /\ UNCHANGED <<uuids, pdf1, pdf2, job_id, exc, locals, files, smvars>>

\* job.error = str(e)
set_error ==
    /\ pc = "except"
    /\ JOB_STORE' = SetJob("error", exc)
    /\ pc' = "get"
    /\ UNCHANGED <<uuids, pdf1, pdf2, queue, job_id, exc, locals, files, smvars>>

----------------------------------------------------------------------------
(* The GET routes. They read JOB_STORE and the files and change nothing, so *)
(* each is the response it gives in the current state.                      *)

HTTPException(status_code, detail) ==
    [status_code |-> status_code, detail |-> detail]

\* Path(path).is_file()
IsFile(path) == path \in DOMAIN files

\* FileResponse(path, filename=...): the file's content under that name; a
\* path that is no file makes the response fail while it is sent
FileResponse(path, filename) ==
    IF IsFile(path)
    THEN [status_code |-> 200, filename |-> filename, content |-> files[path]]
    ELSE HTTPException(500, "File does not exist")

\* Faulty variant: the status of the job is not looked at
get_compare_job_AnyStatus(id) ==
    IF id \notin DOMAIN JOB_STORE THEN HTTPException(404, "Job not found")
    ELSE IF JOB_STORE[id].job_type # "compare_pdf"
    THEN HTTPException(400, "Not a compare job")
    ELSE [status_code |-> 200, job |-> JOB_STORE[id]]

\* _get_compare_job: the HTTPException it raises, or the job it returns
get_compare_job(id) ==
    IF id \notin DOMAIN JOB_STORE THEN HTTPException(404, "Job not found")
    ELSE IF JOB_STORE[id].job_type # "compare_pdf"
    THEN HTTPException(400, "Not a compare job")
    ELSE IF JOB_STORE[id].status # COMPLETED
    THEN HTTPException(400, "Compare not ready yet")
    ELSE [status_code |-> 200, job |-> JOB_STORE[id]]

\* path = (job.params or {}).get(key); 404 unless it is a file
ParamFile(id, key, detail) ==
    LET r == get_compare_job(id)
    IN  IF r.status_code # 200 THEN r
        ELSE IF key \notin DOMAIN r.job.params THEN HTTPException(404, detail)
        ELSE IF ~IsFile(r.job.params[key]) THEN HTTPException(404, detail)
        ELSE [status_code |-> 200, path |-> r.job.params[key]]

\* GET /compare/{job_id}/left
compare_serve_left(id) ==
    LET r == ParamFile(id, "left_pdf", "Left PDF not found")
    IN  IF r.status_code # 200 THEN r ELSE FileResponse(r.path, "left.pdf")

\* GET /compare/{job_id}/right
compare_serve_right(id) ==
    LET r == ParamFile(id, "right_pdf", "Right PDF not found")
    IN  IF r.status_code # 200 THEN r ELSE FileResponse(r.path, "right.pdf")

\* Faulty variant: the report file is served as soon as it is on disk
compare_serve_report_FromDisk(id) ==
    IF id \in DOMAIN JOB_STORE /\ IsFile(PathOf(id, "report.json"))
    THEN [status_code |-> 200, content |-> files[PathOf(id, "report.json")]]
    ELSE HTTPException(404, "Report not found")

\* GET /compare/{job_id}/report: json.load of the report file
compare_serve_report(id) ==
    LET r == ParamFile(id, "report_path", "Report not found")
    IN  IF r.status_code # 200 THEN r
        ELSE [status_code |-> 200, content |-> files[r.path]]

\* _get_completed_job_response; both dispositions serve job.output_path
get_completed_job_response(id, disposition) ==
    IF id \notin DOMAIN JOB_STORE THEN HTTPException(400, "File not ready")
    ELSE IF JOB_STORE[id].status # COMPLETED
    THEN HTTPException(400, "File not ready")
    ELSE LET r == FileResponse(JOB_STORE[id].output_path,
                               IF JOB_STORE[id].output_filename = None
                               THEN "result.pdf"
                               ELSE JOB_STORE[id].output_filename)
         IN  IF r.status_code # 200 THEN r
             ELSE [status_code |-> 200, filename |-> r.filename,
                   content |-> r.content, disposition |-> disposition]

\* GET /jobs/{job_id}: the Job as it is in JOB_STORE, or 404
job_status(id) ==
    IF id \notin DOMAIN JOB_STORE THEN HTTPException(404, "Job not found")
    ELSE [status_code |-> 200, job |-> JOB_STORE[id]]

\* GET /edit-pdf/jobs/{job_id}/extract
get_edit_pdf_extract(id) ==
    IF id \notin DOMAIN JOB_STORE THEN HTTPException(404, "Job not found")
    ELSE IF JOB_STORE[id].job_type # "edit_pdf_prepare"
    THEN HTTPException(400, "Not an edit-pdf prepare job")
    ELSE IF JOB_STORE[id].status # COMPLETED
    THEN HTTPException(400, "Job not completed")
    ELSE IF ~IsFile(PathOf(JOB_STORE[id].output_path[1], "extract.json"))
    THEN HTTPException(404, "Extract data not found")
    ELSE [status_code |-> 200,
          content |-> files[PathOf(JOB_STORE[id].output_path[1], "extract.json")]]

\* GET /download/{job_id}
download(id) == get_completed_job_response(id, "attachment")

\* GET /preview/{job_id}
preview(id) == get_completed_job_response(id, "inline")

----------------------------------------------------------------------------
(* The edit-pdf routes and the job types the worker has no branch for *)

\* JobType.EDIT_PDF_EXTRACT, EDIT_PDF_REPLACE, EDIT_PDF_PREPARE
EditTypes == {"edit_pdf_extract", "edit_pdf_replace", "edit_pdf_prepare"}

EnumName == [edit_pdf_extract |-> "EDIT_PDF_EXTRACT",
             edit_pdf_replace |-> "EDIT_PDF_REPLACE",
             edit_pdf_prepare |-> "EDIT_PDF_PREPARE"]

\* {job.job_type} inside an f-string, JobType being a (str, Enum): the value
\* up to Python 3.11, "JobType.NAME" from Python 3.12 on
FormatJobType(job_type) == {job_type, "JobType." \o EnumName[job_type]}

\* a replacements list _validate_replacements accepts
Replacements == <<[old_text |-> "Hello", new_text |-> "Hi"]>>

\* Job(job_id=..., job_type=..., status=PENDING, input_paths=[input_path], ...)
EditJob(id, job_type, output_name, params) ==
    [job_id |-> id,
     job_type |-> job_type,
     status |-> PENDING,
     input_paths |-> <<PathOf(id, "input.pdf")>>,
     output_path |-> PathOf(id, output_name),
     params |-> params,
     error |-> None,
     output_filename |-> None]

\* storage.save(input_path, data); JOB_STORE[job_id] = job; await queue.put(job_id)
CreateEditJob(id, data, job_type, output_name, params) ==
    /\ uuids' = uuids \ {id}
    /\ files' = Put(files, PathOf(id, "input.pdf"), data)
    /\ JOB_STORE' = Put(JOB_STORE, id, EditJob(id, job_type, output_name, params))
    /\ queue' = Append(queue, id)
    /\ UNCHANGED <<pdf1, pdf2, pc, job_id, exc, locals, smvars>>

\* POST /edit-pdf/extract with a valid PDF upload
edit_pdf_extract ==
    \E id \in uuids :
        CreateEditJob(id, pdf1, "edit_pdf_extract", "extract.json",
                      [input_filenames |-> InputFilenames])

\* POST /edit-pdf/replace with a valid PDF upload and valid replacements
edit_pdf_replace ==
    \E id \in uuids :
        CreateEditJob(id, pdf1, "edit_pdf_replace", "output.pdf",
                      [input_filenames |-> InputFilenames,
                       replacements |-> Replacements])

\* POST /edit-pdf/prepare with a valid PDF upload
edit_pdf_prepare ==
    \E id \in uuids :
        CreateEditJob(id, pdf1, "edit_pdf_prepare", "output.pdf",
                      [input_filenames |-> InputFilenames])

\* the checks of POST /edit-pdf/apply-edits on its prepare job: the
\* HTTPException it raises, or the prepare job
apply_edits_prepare_job(prepare_job_id) ==
    IF prepare_job_id \notin DOMAIN JOB_STORE
    THEN HTTPException(400, "Invalid or incomplete prepare job")
    ELSE IF JOB_STORE[prepare_job_id].job_type # "edit_pdf_prepare"
    THEN HTTPException(400, "Invalid or incomplete prepare job")
    ELSE IF JOB_STORE[prepare_job_id].status # COMPLETED
    THEN HTTPException(400, "Invalid or incomplete prepare job")
    ELSE IF JOB_STORE[prepare_job_id].output_path \notin DOMAIN files
    THEN HTTPException(400, "Prepared PDF no longer available")
    ELSE [status_code |-> 200, job |-> JOB_STORE[prepare_job_id]]

\* POST /edit-pdf/apply-edits with valid replacements: a 400 answer that
\* changes nothing, or a new EDIT_PDF_REPLACE job on a copy of the prepare
\* job's output
edit_pdf_apply_edits ==
    \E prepare_job_id \in JobIds :
        LET r == apply_edits_prepare_job(prepare_job_id)
        IN  IF r.status_code # 200 THEN UNCHANGED vars
            ELSE \E id \in uuids :
                    CreateEditJob(id, files[r.job.output_path], "edit_pdf_replace",
                                  "output.pdf",
                                  [input_filenames |-> r.job.params.input_filenames,
                                   replacements |-> Replacements])

\* Faulty variant: the worker has a branch for EDIT_PDF_PREPARE that writes
\* the job's output
unsupported_job_type_PrepareHandled ==
    /\ pc = "import"
    /\ job.job_type \in EditTypes
    /\ IF job.job_type = "edit_pdf_prepare"
       THEN /\ files' = Put(files, job.output_path, input0)
            /\ pc' = "filename"
            /\ UNCHANGED <<JOB_STORE, exc>>
       ELSE /\ \E text \in FormatJobType(job.job_type) :
                    Raise("Unsupported job type: " \o text)
            /\ UNCHANGED files
    /\ UNCHANGED <<uuids, pdf1, pdf2, queue, job_id, locals, smvars>>

\* else: raise ValueError(f"Unsupported job type: {job.job_type}"), the end
\* of the if/elif chain for a job type none of the branches is for
unsupported_job_type ==
    /\ pc = "import"
    /\ job.job_type \in EditTypes
    /\ \E text \in FormatJobType(job.job_type) :
           Raise("Unsupported job type: " \o text)
    /\ UNCHANGED <<uuids, pdf1, pdf2, queue, job_id, locals, files, smvars>>

Next ==
    \/ compare_pdfs
    \/ worker_get
    \/ import_ok \/ import_error
    \/ extract_text \/ extract_text_error
    \/ line_diff_page \/ build_report
    \/ write_report_json \/ write_report_txt
    \/ extract_words \/ extract_words_error
    \/ word_diff_page \/ word_diff_error \/ word_pass_done
    \/ render_left \/ render_right \/ render_error
    \/ write_zip \/ publish \/ set_output_filename \/ complete
    \/ set_error

Spec == Init /\ [][Next]_vars

PageSpec == InitPage /\ [][Next]_vars

TwiceSpec == InitTwice /\ [][Next]_vars

\* a turn of one of the two page loops, seen through the worker's position
\* alone: the loop index goes on by one
loop_turn ==
    /\ pc \in {"line_pass", "word_pass"}
    /\ i < max_pages
    /\ i' = i + 1
    /\ pc' = pc

\* the steps of the one worker_loop task; every collaborator returns, with a
\* result or with an error
worker_loop ==
    \/ worker_get
    \/ import_ok \/ import_error
    \/ extract_text \/ extract_text_error
    \/ loop_turn \/ build_report
    \/ write_report_json \/ write_report_txt
    \/ extract_words \/ extract_words_error
    \/ word_diff_error \/ word_pass_done
    \/ render_left \/ render_right \/ render_error
    \/ write_zip \/ publish \/ set_output_filename \/ complete
    \/ set_error

\* the event loop runs the worker task whenever it can move on: a step of
\* the task changes the statement it is at or the index of its loop
FairTwiceSpec == InitTwice /\ [][Next]_vars /\ WF_<<pc, i>>(worker_loop)

\* the uploads go to the compare route or to the edit-pdf routes
InitEdit ==
    /\ uuids = JobIds
    /\ pdf1 \in ShortDocs /\ pdf2 \in ShortDocs
    /\ NoJob /\ NoMatcher

EditNext ==
    \/ Next
    \/ edit_pdf_extract \/ edit_pdf_replace \/ edit_pdf_prepare
    \/ edit_pdf_apply_edits
    \/ unsupported_job_type

EditSpec == InitEdit /\ [][EditNext]_vars

\* matcher = difflib.SequenceMatcher(None, a, b); matcher.get_opcodes()
get_opcodes ==
    /\ sm_pc = "new"
    /\ opcodes' = GetOpcodes(seq_a, seq_b)
    /\ sm_pc' = "done"
    /\ UNCHANGED <<seq_a, seq_b, jobvars>>

AlignSpec == InitAlign /\ [][get_opcodes]_vars

----------------------------------------------------------------------------
(* The sequence aligner: C1 - C4, under AlignSpec *)

Tags == {"equal", "replace", "delete", "insert"}

IsOpcodeList(ops) ==
    \A k \in 1..Len(ops) :
        /\ ops[k].tag \in Tags
        /\ 0 <= ops[k].i1 /\ ops[k].i1 <= ops[k].i2
        /\ 0 <= ops[k].j1 /\ ops[k].j1 <= ops[k].j2

\* each opcode starts where the one before it ended, the first at (0, 0),
\* the last one ends at (la, lb)
Contiguous(ops, la, lb) ==
    /\ IsOpcodeList(ops)
    /\ \A k \in 1..(Len(ops) - 1) :
          ops[k + 1].i1 = ops[k].i2 /\ ops[k + 1].j1 = ops[k].j2
    /\ ops # <<>> =>
          /\ ops[1].i1 = 0 /\ ops[1].j1 = 0
          /\ ops[Len(ops)].i2 = la /\ ops[Len(ops)].j2 = lb
    /\ ops = <<>> => la = 0 /\ lb = 0

RECURSIVE ConcatLeft(_, _)
ConcatLeft(ops, a) ==
    IF ops = <<>> THEN <<>>
    ELSE Slice(a, Head(ops).i1, Head(ops).i2) \o ConcatLeft(Tail(ops), a)

RECURSIVE ConcatRight(_, _)
ConcatRight(ops, b) ==
    IF ops = <<>> THEN <<>>
    ELSE Slice(b, Head(ops).j1, Head(ops).j2) \o ConcatRight(Tail(ops), b)

\* C1: the opcodes of any two token sequences are ordered and contiguous,
\* start at (0, 0), end at (len(left), len(right)), and the left ranges
\* concatenated give left, the right ranges right
C1_Coverage ==
    sm_pc = "done" =>
        /\ Contiguous(opcodes, Len(seq_a), Len(seq_b))
        /\ ConcatLeft(opcodes, seq_a) = seq_a
        /\ ConcatRight(opcodes, seq_b) = seq_b

C1_Witness ==
    /\ sm_pc = "done"
    /\ Len(opcodes) >= 4
    /\ \E k \in 1..Len(opcodes) : opcodes[k].tag = "replace"
    /\ opcodes[Len(opcodes)].tag # "equal"

\* the reference recursion of C2: the blocks of equal tokens of a window
RefBlocks(a, b, alo, ahi, blo, bhi) ==
    {x \in (alo..(ahi - 1)) \X (blo..(bhi - 1)) \X (1..(ahi - alo)) :
        /\ x[1] + x[3] <= ahi /\ x[2] + x[3] <= bhi
        /\ \A t \in 0..(x[3] - 1) : a[x[1] + t + 1] = b[x[2] + t + 1]}

\* the longest one, of those the earliest in a, of those the earliest in b
RefBest(S) ==
    CHOOSE x \in S : \A y \in S :
        \/ x[3] > y[3]
        \/ x[3] = y[3] /\ x[1] < y[1]
        \/ x[3] = y[3] /\ x[1] = y[1] /\ x[2] <= y[2]

RECURSIVE RefAlign(_, _, _, _, _, _)
RefAlign(a, b, alo, ahi, blo, bhi) ==
    LET S == RefBlocks(a, b, alo, ahi, blo, bhi)
    IN  IF S = {}
        THEN (IF alo < ahi /\ blo < bhi THEN <<Opcode("replace", alo, ahi, blo, bhi)>>
              ELSE IF alo < ahi THEN <<Opcode("delete", alo, ahi, blo, bhi)>>
              ELSE IF blo < bhi THEN <<Opcode("insert", alo, ahi, blo, bhi)>>
              ELSE <<>>)
        ELSE LET x == RefBest(S)
             IN  RefAlign(a, b, alo, x[1], blo, x[2])
                 \o <<Opcode("equal", x[1], x[1] + x[3], x[2], x[2] + x[3])>>
                 \o RefAlign(a, b, x[1] + x[3], ahi, x[2] + x[3], bhi)

\* C2: the opcode list of any two sequences is the one of the reference
\* recursion: in every window the longest block of equal tokens, the earliest
\* in left among the longest, the earliest in right among those, then the
\* part before it and the part after it on their own
C2_LongestBlock ==
    sm_pc = "done" =>
        opcodes = RefAlign(seq_a, seq_b, 0, Len(seq_a), 0, Len(seq_b))

\* a[i1:i2] and b[j1:j2] share no token
NoCommonToken(a, b, i1, i2, j1, j2) ==
    \A x \in (i1 + 1)..i2, y \in (j1 + 1)..j2 : a[x] # b[y]

\* the tag of the one opcode of a window without a match
NoMatchTag(i1, i2, j1, j2) ==
    IF i1 < i2 /\ j1 < j2 THEN "replace"
    ELSE IF i1 < i2 THEN "delete" ELSE "insert"

\* the windows an opcode list leaves between its "equal" opcodes: from the
\* end of an "equal" opcode (or from (0, 0)) to the start of the next one
\* (or to (la, lb))
GapStarts(ops) ==
    {<<0, 0>>} \cup {<<ops[k].i2, ops[k].j2>> : k \in {x \in 1..Len(ops) : ops[x].tag = "equal"}}
GapEnds(ops, la, lb) ==
    {<<la, lb>>} \cup {<<ops[k].i1, ops[k].j1>> : k \in {x \in 1..Len(ops) : ops[x].tag = "equal"}}
Gaps(ops, la, lb) ==
    LET E == GapEnds(ops, la, lb)
        IsNextEnd(st, en) ==
            /\ st[1] <= en[1] /\ st[2] <= en[2]
            /\ ~ \E y \in E : /\ st[1] <= y[1] /\ st[2] <= y[2]
                              /\ (y[1] < en[1] \/ y[2] < en[2])
    IN  {<<p[1][1], p[2][1], p[1][2], p[2][2]>> :
            p \in {q \in GapStarts(ops) \X E : IsNextEnd(q[1], q[2])}}

\* C3: a window without any token common to its two parts (the whole pair of
\* sequences, or what lies between two neighbouring "equal" opcodes) that is
\* not empty on both sides is covered by exactly one opcode, from its start
\* to its end: "delete" when only the left part has tokens, "insert" when
\* only the right part has, "replace" when both have
C3_NoMatchWindow ==
    sm_pc = "done" =>
        /\ IsOpcodeList(opcodes)
        /\ \A w \in Gaps(opcodes, Len(seq_a), Len(seq_b)) \cup {<<0, Len(seq_a), 0, Len(seq_b)>>} :
              (/\ w[1] < w[2] \/ w[3] < w[4]
               /\ NoCommonToken(seq_a, seq_b, w[1], w[2], w[3], w[4]))
              => /\ Cardinality({k \in 1..Len(opcodes) :
                        /\ w[1] <= opcodes[k].i1 /\ opcodes[k].i2 <= w[2]
                        /\ w[3] <= opcodes[k].j1 /\ opcodes[k].j2 <= w[4]}) = 1
                 /\ Opcode(NoMatchTag(w[1], w[2], w[3], w[4]), w[1], w[2], w[3], w[4])
                        \in {opcodes[k] : k \in 1..Len(opcodes)}

\* a "replace" between two "equal" opcodes, and a trailing "delete"
C3_Witness ==
    /\ sm_pc = "done"
    /\ \E k \in 2..(Len(opcodes) - 1) :
          /\ opcodes[k].tag = "replace"
          /\ opcodes[k - 1].tag = "equal" /\ opcodes[k + 1].tag = "equal"
    /\ Len(seq_a) >= 3

\* C4 as stated: never fails, both sequences empty give one "equal" opcode
\* covering nothing, only left empty gives only "insert", only right empty
\* only "delete"
C4_EmptyInputs_Original ==
    sm_pc = "done" =>
        /\ IsOpcodeList(opcodes)
        /\ (seq_a = <<>> /\ seq_b = <<>>) => opcodes = <<Opcode("equal", 0, 0, 0, 0)>>
        /\ (seq_a = <<>> /\ seq_b # <<>>) =>
              opcodes # <<>> /\ \A k \in 1..Len(opcodes) : opcodes[k].tag = "insert"
        /\ (seq_a # <<>> /\ seq_b = <<>>) =>
              opcodes # <<>> /\ \A k \in 1..Len(opcodes) : opcodes[k].tag = "delete"

\* C4 amended: never fails, both sequences empty give no opcode at all, only
\* left empty gives the one opcode "insert" over all of right, only right
\* empty the one opcode "delete" over all of left
C4_EmptyInputs ==
    sm_pc = "done" =>
        /\ IsOpcodeList(opcodes)
        /\ (seq_a = <<>> /\ seq_b = <<>>) => opcodes = <<>>
        /\ (seq_a = <<>> /\ seq_b # <<>>) =>
              opcodes = <<Opcode("insert", 0, 0, 0, Len(seq_b))>>
        /\ (seq_a # <<>> /\ seq_b = <<>>) =>
              opcodes = <<Opcode("delete", 0, Len(seq_a), 0, 0)>>

C4_Witness ==
    sm_pc = "done" /\ seq_a = <<>> /\ seq_b = <<>> /\ opcodes = <<>>

----------------------------------------------------------------------------
(* The line pass, the word pass and the report: C5 - C10 *)

\* the pages the line pass has been through, and the word pass
LinePagesDone == IF pc = "line_pass" THEN i ELSE max_pages
WordPagesDone ==
    IF pc = "word_pass" THEN i
    ELSE IF pc \in {"render_left", "render_right", "zip", "publish", "filename", "complete"}
         THEN max_pages
    ELSE IF JOB_ID \in DOMAIN JOB_STORE /\ JOB_STORE[JOB_ID].status = COMPLETED
         THEN max_pages
    ELSE 0

Completed == JOB_ID \in DOMAIN JOB_STORE /\ JOB_STORE[JOB_ID].status = COMPLETED

\* the lines of page p (1-based) of a document, none for a page it lacks
DocLines(pdf, p) == IF p <= Len(pdf) THEN LinesOf(Strip(pdf[p].text)) ELSE <<>>
DocWords(pdf, p) == IF p <= Len(pdf) THEN pdf[p].words ELSE <<>>

IsBlank(text) == \A k \in 1..Len(text) : text[k] \in Whitespace

\* the rule of C5 for one opcode: the changes it names, the blank ones dropped
ExpectedOfOpcode(op, lines1, lines2, p) ==
    LET rem == [page |-> p, type |-> "remove", text |-> Join(Slice(lines1, op.i1, op.i2))]
        add == [page |-> p, type |-> "add", text |-> Join(Slice(lines2, op.j1, op.j2))]
        named == CASE op.tag = "replace" -> <<rem, add>>
                   [] op.tag = "delete" -> <<rem>>
                   [] op.tag = "insert" -> <<add>>
                   [] OTHER -> <<>>
        NotBlank(c) == ~IsBlank(c.text)
    IN  SelectSeq(named, NotBlank)

RECURSIVE ExpectedOfPage(_, _, _, _)
ExpectedOfPage(ops, lines1, lines2, p) ==
    IF ops = <<>> THEN <<>>
    ELSE ExpectedOfOpcode(Head(ops), lines1, lines2, p)
         \o ExpectedOfPage(Tail(ops), lines1, lines2, p)

\* the changes of page p, in the order of changes
ChangesOn(p) == LET OnP(c) == c.page = p IN SelectSeq(changes, OnP)

\* C5 (PageSpec): for each opcode of a page's line alignment "replace" gives
\* a "remove" change with the left lines joined by "\n" and then an "add"
\* change with the right lines, "delete" one "remove", "insert" one "add",
\* "equal" nothing, each change appended exactly when its text is not blank;
\* no change has a blank text
C5_LineEmission ==
    /\ \A k \in 1..Len(changes) : ~IsBlank(changes[k].text)
    /\ \A p \in 1..LinePagesDone :
          ChangesOn(p) =
              ExpectedOfPage(GetOpcodes(DocLines(pdf1, p), DocLines(pdf2, p)),
                             DocLines(pdf1, p), DocLines(pdf2, p), p)

\* the line " " between "a" and "a" replaced by "b": only the "add" is reported
C5_Witness ==
    /\ pc = "write_json"
    /\ DocLines(pdf1, 1) = <<<<65>>, <<32>>, <<65>>>>
    /\ DocLines(pdf2, 1) = <<<<65>>, <<66>>, <<65>>>>
    /\ changes = <<[page |-> 1, type |-> "add", text |-> <<66>>]>>

\* C6 (Spec): page numbers never decrease along changes, and the changes of
\* one page are in the left-to-right order of the opcodes they come from, the
\* "remove" of a "replace" directly before its "add"
C6_ChangeOrder ==
    /\ \A k \in 1..(Len(changes) - 1) : changes[k].page <= changes[k + 1].page
    /\ \A p \in 1..LinePagesDone :
          ChangesOn(p) =
              ExpectedOfPage(GetOpcodes(DocLines(pdf1, p), DocLines(pdf2, p)),
                             DocLines(pdf1, p), DocLines(pdf2, p), p)

\* page 1 gives an "add" and then a "remove" from two opcodes, page 2 the
\* "remove" and the "add" of a "replace"
C6_Witness ==
    /\ pc = "write_json"
    /\ Len(changes) = 4
    /\ changes[1].page = 1 /\ changes[1].type = "add"
    /\ changes[2].page = 1 /\ changes[2].type = "remove"
    /\ changes[3].page = 2 /\ changes[3].type = "remove"
    /\ changes[4].page = 2 /\ changes[4].type = "add"

\* same page count, same page texts, same word texts
SameContent ==
    /\ Len(pdf1) = Len(pdf2)
    /\ \A p \in 1..Len(pdf1) :
          /\ pdf1[p].text = pdf2[p].text
          /\ Len(pdf1[p].words) = Len(pdf2[p].words)
          /\ \A k \in 1..Len(pdf1[p].words) :
                pdf1[p].words[k].text = pdf2[p].words[k].text

NoRectangles(hl) ==
    \A p \in 1..Len(hl) : hl[p].red = <<>> /\ hl[p].green = <<>>

\* C7 (Spec): comparing a document with an identical copy gives no change,
\* summary.total = 0, an empty by_page, and no rectangle on either side
C7_Identity ==
    SameContent =>
        /\ changes = <<>>
        /\ report # Unbound =>
              /\ report.changes = <<>>
              /\ report.summary.total = 0
              /\ DOMAIN report.summary.by_page = {}
        /\ NoRectangles(left_highlights) /\ NoRectangles(right_highlights)
        /\ Completed => Len(left_highlights) = Len(pdf1) /\ Len(right_highlights) = Len(pdf2)

\* two pages, the copy's words at other places of the page
C7_Witness ==
    /\ Completed
    /\ SameContent
    /\ Len(pdf1) = 2
    /\ pdf1[1].words # <<>> /\ pdf1[2].text # <<>>
    /\ pdf1 # pdf2

AllRects(words) == RectsOf(words, 0, Len(words))

\* C8 (Spec): every page index up to max(len(A), len(B)) is compared, a page a
\* document lacks counting as no lines and no words: a page only B has gives
\* its lines as "add" and no "remove" (only A: "remove" and no "add"), and
\* every change carries a page number in 1..max(len(A), len(B))
C8_PageAsymmetry ==
    LET n == Max2(Len(pdf1), Len(pdf2))
    IN  /\ \A k \in 1..Len(changes) : changes[k].page \in 1..n
        /\ pc \in {"write_json", "write_txt", "extract_words"} \/ Completed =>
              \A p \in 1..n :
                 /\ p > Len(pdf1) =>
                       ChangesOn(p) =
                          IF DocLines(pdf2, p) = <<>> THEN <<>>
                          ELSE <<[page |-> p, type |-> "add", text |-> Join(DocLines(pdf2, p))]>>
                 /\ p > Len(pdf2) =>
                       ChangesOn(p) =
                          IF DocLines(pdf1, p) = <<>> THEN <<>>
                          ELSE <<[page |-> p, type |-> "remove", text |-> Join(DocLines(pdf1, p))]>>
        /\ Completed =>
              /\ Len(left_highlights) = n /\ Len(right_highlights) = n
              /\ \A p \in 1..n :
                    /\ p > Len(pdf1) =>
                          /\ left_highlights[p].red = <<>>
                          /\ right_highlights[p].green = AllRects(pdf2[p].words)
                    /\ p > Len(pdf2) =>
                          /\ left_highlights[p].red = AllRects(pdf1[p].words)
                          /\ right_highlights[p].green = <<>>

\* A has one page, B two: page 2 is reported as one "add"
C8_Witness ==
    /\ Completed
    /\ Len(pdf1) = 1 /\ Len(pdf2) = 2
    /\ ChangesOn(2) = <<[page |-> 2, type |-> "add", text |-> Hello \o <<10>> \o There]>>
    /\ Len(right_highlights[2].green) = 2

\* the rectangles of the words whose 0-based index Covered picks, in word
\* order
RectsWhere(words, Covered(_)) ==
    LET picked == SelectSeq([k \in 1..Len(words) |-> k - 1], Covered)
    IN  [x \in 1..Len(picked) |-> Rect(words[picked[x] + 1])]

ExpectedRed(ops, words) ==
    LET Covered(k) == \E x \in 1..Len(ops) :
            ops[x].tag \in {"delete", "replace"} /\ ops[x].i1 <= k /\ k < ops[x].i2
    IN  RectsWhere(words, Covered)

ExpectedGreen(ops, words) ==
    LET Covered(k) == \E x \in 1..Len(ops) :
            ops[x].tag \in {"insert", "replace"} /\ ops[x].j1 <= k /\ k < ops[x].j2
    IN  RectsWhere(words, Covered)

\* C9 (PageSpec): on each page every left word whose index is in a "delete"
\* or "replace" range gives one rectangle, its own box, to the red list of
\* the left document, every right word in an "insert" or "replace" range one
\* to the green list of the right document, words in "equal" ranges none,
\* in word order, nothing merged or dropped; "hello world" against
\* "hello there" gives the box of "world" as red and of "there" as green
C9_WordRule ==
    \A p \in 1..WordPagesDone :
        LET wl == DocWords(pdf1, p)
            wr == DocWords(pdf2, p)
            ops == GetOpcodes(WordTexts(wl), WordTexts(wr))
        IN  /\ left_highlights[p].red = ExpectedRed(ops, wl)
            /\ right_highlights[p].green = ExpectedGreen(ops, wr)
            /\ (WordTexts(wl) = <<Hello, World>> /\ WordTexts(wr) = <<Hello, There>>) =>
                  /\ left_highlights[p].red = <<Rect(wl[2])>>
                  /\ right_highlights[p].green = <<Rect(wr[2])>>

C9_Witness ==
    /\ pc = "render_left"
    /\ WordTexts(DocWords(pdf1, 1)) = <<Hello, World>>
    /\ WordTexts(DocWords(pdf2, 1)) = <<Hello, There>>
    /\ left_highlights[1].red = <<<<6, 0, 11, 1>>>>
    /\ right_highlights[1].green = <<<<6, 0, 11, 1>>>>

RECURSIVE SumOver(_, _)
SumOver(f, keys) ==
    IF keys = {} THEN 0
    ELSE LET k == CHOOSE x \in keys : TRUE
         IN  f[k] + SumOver(f, keys \ {k})

SummaryConsistent(r) ==
    /\ r.summary.total = Len(r.changes)
    /\ SumOver(r.summary.by_page, DOMAIN r.summary.by_page) = r.summary.total

\* C10 (Spec): in every report the job builds, and in every report.json it
\* writes, summary.total is the number of entries of changes and the values
\* of summary.by_page add up to summary.total
C10_SummaryConsistency ==
    /\ report # Unbound => SummaryConsistent(report) /\ report.changes = changes
    /\ \A f \in DOMAIN files : f[2] = "report.json" => SummaryConsistent(files[f])

C10_Witness ==
    /\ PathOf(JOB_ID, "report.json") \in DOMAIN files
    /\ files[PathOf(JOB_ID, "report.json")].summary.total = 4
    /\ DOMAIN files[PathOf(JOB_ID, "report.json")].summary.by_page = {<<49>>, <<50>>}

----------------------------------------------------------------------------
(* What a caller can get from a job: C11 - C13, under Spec *)

\* the files a compare job writes besides its inputs
Artifacts == {"report.json", "report.txt", "left.pdf", "right.pdf",
              "compare_result.zip"}

\* an error answer, carrying no content of a report or of a file
IsErrorResponse(r) == r.status_code >= 400 /\ "content" \notin DOMAIN r

\* C11: while a compare job is PENDING, PROCESSING or FAILED, the routes
\* GET /compare/{job_id}/report, /left, /right, GET /download/{job_id} and
\* GET /preview/{job_id} all answer with an error and return no content.
C11_NoContentUnlessCompleted ==
    \A id \in DOMAIN JOB_STORE :
        JOB_STORE[id].status # COMPLETED =>
            /\ IsErrorResponse(compare_serve_report(id))
            /\ IsErrorResponse(compare_serve_left(id))
            /\ IsErrorResponse(compare_serve_right(id))
            /\ IsErrorResponse(download(id))
            /\ IsErrorResponse(preview(id))

\* a job that failed with its report and its left document already written
C11_Witness ==
    /\ JOB_ID \in DOMAIN JOB_STORE
    /\ JOB_STORE[JOB_ID].status = FAILED
    /\ JOB_STORE[JOB_ID].error = "render"
    /\ IsFile(PathOf(JOB_ID, "report.json"))
    /\ IsFile(PathOf(JOB_ID, "left.pdf"))
    /\ files[PathOf(JOB_ID, "report.json")].summary.total > 0
    /\ compare_serve_report(JOB_ID) = HTTPException(400, "Compare not ready yet")
    /\ download(JOB_ID) = HTTPException(400, "File not ready")

\* C12: a job that ended FAILED because text or word extraction failed has
\* no report.json, no report.txt, no annotated document and no archive.
C12_ExtractionLeavesNothing ==
    \A id \in DOMAIN JOB_STORE :
        (/\ JOB_STORE[id].status = FAILED
         /\ JOB_STORE[id].error \in {"extract_text", "extract_words"})
        => \A name \in Artifacts : ~IsFile(PathOf(id, name))

\* C13 as stated: after rendering failed the computed report can still be
\* obtained with GET /compare/{job_id}/report.
C13_ReportAfterRenderFailure_Original ==
    \A id \in DOMAIN JOB_STORE :
        (JOB_STORE[id].status = FAILED /\ JOB_STORE[id].error = "render")
        => /\ IsFile(PathOf(id, "report.json"))
           /\ compare_serve_report(id) =
                [status_code |-> 200, content |-> files[PathOf(id, "report.json")]]

\* C13: after rendering failed the job is FAILED, report.json and report.txt
\* with the computed report stay in the job's directory, and GET
\* /compare/{job_id}/report answers 400 "Compare not ready yet".
C13_ReportAfterRenderFailure ==
    \A id \in DOMAIN JOB_STORE :
        (JOB_STORE[id].status = FAILED /\ JOB_STORE[id].error = "render")
        => /\ IsFile(PathOf(id, "report.json"))
           /\ IsFile(PathOf(id, "report.txt"))
           /\ ~IsFile(PathOf(id, "compare_result.zip"))
           /\ "report_path" \notin DOMAIN JOB_STORE[id].params
           /\ (id = job_id => files[PathOf(id, "report.json")] = BuildReport(changes))
           /\ compare_serve_report(id) = HTTPException(400, "Compare not ready yet")

C13_Witness ==
    /\ JOB_ID \in DOMAIN JOB_STORE
    /\ JOB_STORE[JOB_ID].status = FAILED
    /\ JOB_STORE[JOB_ID].error = "render"
    /\ pc = "get"
    /\ ~IsFile(PathOf(JOB_ID, "left.pdf"))
    /\ Len(files[PathOf(JOB_ID, "report.json")].changes) = 2
    /\ compare_serve_report(JOB_ID).status_code = 400

----------------------------------------------------------------------------
(* The order of the steps of one job: C14, under Spec *)

\* the positions of the worker inside the COMPARE_PDF branch, in program order
Steps == <<"import", "extract_text", "line_pass", "write_json", "write_txt",
           "extract_words", "word_pass", "render_left", "render_right", "zip",
           "publish", "filename", "complete">>

InBranch == \E k \in 1..Len(Steps) : Steps[k] = pc
Rank(at) == CHOOSE k \in 1..Len(Steps) : Steps[k] = at

\* the finished results of the line pass and of the word pass on d1 and d2
RECURSIVE ChangesUpTo(_, _, _)
ChangesUpTo(t1s, t2s, n) ==
    IF n = 0 THEN <<>>
    ELSE LineDiffPage(ChangesUpTo(t1s, t2s, n - 1), t1s, t2s, n - 1)

AllChanges(d1, d2) ==
    ChangesUpTo(ExtractTextPerPage(d1), ExtractTextPerPage(d2),
                Max2(Len(d1), Len(d2)))

AllLeftHighlights(d1, d2) ==
    [p \in 1..Max2(Len(d1), Len(d2)) |->
        [red |-> RedOfOpcodes(WordOpcodes(d1, d2, p - 1), WordsAt(d1, p - 1), <<>>),
         green |-> <<>>]]

AllRightHighlights(d1, d2) ==
    [p \in 1..Max2(Len(d1), Len(d2)) |->
        [red |-> <<>>,
         green |-> GreenOfOpcodes(WordOpcodes(d1, d2, p - 1), WordsAt(d2, p - 1), <<>>)]]

\* what holds at each position of the worker inside the branch
StepsInOrder ==
    InBranch =>
        LET r == Rank(pc)
            Has(name) == IsFile(PathOf(job_id, name))
        IN  \* text extraction is finished before the line pass starts
            /\ r >= Rank("line_pass") =>
                    /\ texts1 = ExtractTextPerPage(input0)
                    /\ texts2 = ExtractTextPerPage(input1)
            \* the line pass is finished before the report is built
            /\ r >= Rank("write_json") =>
                    /\ changes = AllChanges(input0, input1)
                    /\ report = BuildReport(changes)
            \* the report is built and written before the word pass starts
            /\ Has("report.json") <=> r >= Rank("write_txt")
            /\ Has("report.txt") <=> r >= Rank("extract_words")
            /\ Has("report.json") => files[PathOf(job_id, "report.json")] = report
            /\ r < Rank("word_pass") => left_highlights = <<>> /\ right_highlights = <<>>
            \* the word pass is finished before rendering starts
            /\ r >= Rank("render_left") =>
                    /\ left_highlights = AllLeftHighlights(input0, input1)
                    /\ right_highlights = AllRightHighlights(input0, input1)
            /\ Has("left.pdf") <=> r >= Rank("render_right")
            /\ Has("right.pdf") <=> r >= Rank("zip")
            /\ Has("left.pdf") =>
                    files[PathOf(job_id, "left.pdf")] =
                        MergeHighlightIntoPdf(input0, AllLeftHighlights(input0, input1))
            /\ Has("right.pdf") =>
                    files[PathOf(job_id, "right.pdf")] =
                        MergeHighlightIntoPdf(input1, AllRightHighlights(input0, input1))
            \* the archive is written after the four files it holds
            /\ Has("compare_result.zip") <=> r >= Rank("publish")
            /\ JOB_STORE[job_id].status = PROCESSING

\* a job is COMPLETED only with its archive written
CompletedAfterArchive ==
    \A id \in DOMAIN JOB_STORE :
        JOB_STORE[id].status = COMPLETED =>
            /\ \A name \in Artifacts : IsFile(PathOf(id, name))
            /\ JOB_STORE[id].output_path = PathOf(id, "compare_result.zip")

\* the worker moves from one position only to the next one
OneStepAtATime ==
    (InBranch /\ pc' # pc /\ pc' \notin {"except", "get"}) =>
        /\ \E k \in 1..Len(Steps) : Steps[k] = pc'
        /\ Rank(pc') = Rank(pc) + 1

\* extraction, of the words too, is still to be done
ExtractionPending ==
    \/ pc \in {"extract_text", "extract_words"}
    \/ pc = "word_pass" /\ i < max_pages

----------------------------------------------------------------------------
(* The archive: C15, under Spec *)

EntryNames(zipf) == {zipf[k].name : k \in 1..Len(zipf)}

\* C15: the archive of every completed compare job holds exactly four
\* entries, named report.json, report.txt, left.pdf and right.pdf, each of
\* them once.
C15_ArchiveContent ==
    \A id \in DOMAIN JOB_STORE :
        JOB_STORE[id].status = COMPLETED =>
            LET zipf == files[JOB_STORE[id].output_path]
            IN  /\ Len(zipf) = 4
                /\ EntryNames(zipf) = {"report.json", "report.txt", "left.pdf", "right.pdf"}
                /\ \A k \in 1..Len(zipf) :
                       zipf[k].data = files[PathOf(id, zipf[k].name)]

C15_Witness ==
    /\ Completed
    /\ download(JOB_ID).status_code = 200
    /\ Len(download(JOB_ID).content) = 4
    /\ download(JOB_ID).content[1].name = "report.json"
    /\ download(JOB_ID).content[1].data.summary.total = 2

----------------------------------------------------------------------------
(* The life of a job: C16, under Spec *)

\* how often id is on the queue
Queued(q, id) == Cardinality({k \in 1..Len(q) : q[k] = id})

StatusMoves == {<<PENDING, PROCESSING>>, <<PROCESSING, COMPLETED>>,
                <<PROCESSING, FAILED>>}

\* a job is on the queue once while PENDING and never afterwards; COMPLETED
\* jobs carry no error, FAILED ones the text of the exception
QueuedOnce ==
    \A id \in DOMAIN JOB_STORE :
        /\ JOB_STORE[id].status \in {PENDING, PROCESSING, COMPLETED, FAILED}
        /\ Queued(queue, id) = (IF JOB_STORE[id].status = PENDING THEN 1 ELSE 0)
        /\ JOB_STORE[id].status \in {PENDING, PROCESSING, COMPLETED} =>
                JOB_STORE[id].error = None
        /\ (JOB_STORE[id].status = FAILED /\ ~(id = job_id /\ pc = "except")) =>
                /\ JOB_STORE[id].error # None
                /\ id = job_id => JOB_STORE[id].error = exc

StatusStep ==
    /\ DOMAIN JOB_STORE \subseteq DOMAIN JOB_STORE'
    /\ \A id \in DOMAIN JOB_STORE' \ DOMAIN JOB_STORE :
           JOB_STORE'[id].status = PENDING /\ Queued(queue', id) = 1
    /\ \A id \in DOMAIN JOB_STORE :
           /\ JOB_STORE'[id].status # JOB_STORE[id].status =>
                  <<JOB_STORE[id].status, JOB_STORE'[id].status>> \in StatusMoves
           /\ Queued(queue', id) <= Queued(queue, id)
           /\ JOB_STORE'[id].error # JOB_STORE[id].error =>
                  /\ JOB_STORE[id].error = None
                  /\ JOB_STORE[id].status = FAILED
                  /\ JOB_STORE'[id].error = exc

\* C16: a job's status only moves PENDING -> PROCESSING -> COMPLETED or
\* PENDING -> PROCESSING -> FAILED, COMPLETED and FAILED are final, its id is
\* put on the queue once, when it is created, and never again, so a failed
\* job is not processed again; an exception raised while it is processed
\* makes it FAILED with the exception's text as its one error message.
C16_NoRetry ==
    /\ []QueuedOnce
    /\ [][StatusStep]_vars

\* a job that failed in the word pass, at rest
C16_Witness ==
    /\ JOB_ID \in DOMAIN JOB_STORE
    /\ JOB_STORE[JOB_ID].status = FAILED
    /\ JOB_STORE[JOB_ID].error = "extract_words"
    /\ queue = <<>>
    /\ pc = "get"
    /\ IsFile(PathOf(JOB_ID, "report.json"))

----------------------------------------------------------------------------
(* Two runs on the same documents: C17, under TwiceSpec *)

\* both jobs have written the file of this name
BothHave(name) ==
    IsFile(PathOf(JOB_ID, name)) /\ IsFile(PathOf(JOB_ID_2, name))

SameFile(name) ==
    BothHave(name) => files[PathOf(JOB_ID, name)] = files[PathOf(JOB_ID_2, name)]

\* C17: two runs of the comparison on the same two documents, and so two
\* runs of the aligner on each pair of token sequences of their pages, give
\* the same change list and summary (report.json, report.txt) and the same
\* highlight maps (the rectangles of left.pdf and right.pdf), whichever job
\* runs first and whatever happened to the other one.
C17_Determinism ==
    /\ \A name \in Artifacts : SameFile(name)
    /\ \A id \in DOMAIN JOB_STORE :
           /\ IsFile(PathOf(id, "report.json")) =>
                  files[PathOf(id, "report.json")] = BuildReport(AllChanges(pdf1, pdf2))
           /\ IsFile(PathOf(id, "left.pdf")) =>
                  files[PathOf(id, "left.pdf")] =
                      MergeHighlightIntoPdf(pdf1, AllLeftHighlights(pdf1, pdf2))
           /\ IsFile(PathOf(id, "right.pdf")) =>
                  files[PathOf(id, "right.pdf")] =
                      MergeHighlightIntoPdf(pdf2, AllRightHighlights(pdf1, pdf2))

C17_Witness ==
    /\ DOMAIN JOB_STORE = {JOB_ID, JOB_ID_2}
    /\ JOB_STORE[JOB_ID].status = COMPLETED
    /\ JOB_STORE[JOB_ID_2].status = COMPLETED
    /\ job_id = JOB_ID
    /\ files[PathOf(JOB_ID, "report.json")].summary.total = 2
    /\ files[PathOf(JOB_ID_2, "report.json")].summary.total = 2
    /\ files[PathOf(JOB_ID, "left.pdf")][1].red # <<>>
    /\ files[PathOf(JOB_ID, "compare_result.zip")] =
           files[PathOf(JOB_ID_2, "compare_result.zip")]

----------------------------------------------------------------------------
(* One line against another: C18, under PageSpec *)

\* a document of one page whose text is this one line
OneLineDoc(line) == <<Page(line, <<>>)>>

\* C18: a page whose only line is "A" compared with a page whose only line
\* is "B" gives exactly two changes, both on page 1: a "remove" with text
\* "A" and then an "add" with text "B"; summary.total = 2.
C18_TotalReplacement ==
    (/\ pdf1 = OneLineDoc(<<65>>)
     /\ pdf2 = OneLineDoc(<<66>>)
     /\ LinePagesDone >= 1)
    => /\ changes = <<Change(1, "remove", <<65>>), Change(1, "add", <<66>>)>>
       /\ report # Unbound =>
              /\ report.changes = changes
              /\ report.summary.total = 2
              /\ report.summary.by_page = [k \in {Str(1)} |-> 2]
       /\ IsFile(PathOf(JOB_ID, "report.json")) =>
              files[PathOf(JOB_ID, "report.json")] = report

C18_Witness ==
    /\ pdf1 = OneLineDoc(<<65>>)
    /\ pdf2 = OneLineDoc(<<66>>)
    /\ Completed
    /\ Len(changes) = 2
    /\ files[PathOf(JOB_ID, "report.json")].summary.total = 2

----------------------------------------------------------------------------
(* Words are compared by their text: C19, under PageSpec *)

\* the word lists with the texts of this one, word by word, in any boxes
SameTexts(words) ==
    {v \in PageWords :
        /\ Len(v) = Len(words)
        /\ \A k \in 1..Len(words) : v[k].text = words[k].text}

\* C19: which words of a page are highlighted depends only on the texts of
\* the words of both sides: the word pass on any two word lists with the
\* same texts in other boxes marks the words with the same indexes, and two
\* pages with the same word texts in the same order give no rectangle,
\* wherever their words are.
C19_TextOnly ==
    WordPagesDone >= 1 =>
        LET wl == DocWords(pdf1, 1)
            wr == DocWords(pdf2, 1)
        IN  /\ \A vl \in SameTexts(wl), vr \in SameTexts(wr) :
                   LET ops == WordOpcodes(<<Page(<<>>, vl)>>, <<Page(<<>>, vr)>>, 0)
                   IN  /\ left_highlights[1].red = ExpectedRed(ops, wl)
                       /\ right_highlights[1].green = ExpectedGreen(ops, wr)
            /\ wr \in SameTexts(wl) =>
                   /\ left_highlights[1].red = <<>>
                   /\ right_highlights[1].green = <<>>

\* "hello" is matched although its two boxes differ, "world" and "there"
\* are marked
C19_Witness ==
    /\ pc = "render_left"
    /\ pdf1[1].words = <<Word(Hello, 0, 0, 5, 1), Word(World, 6, 0, 11, 1)>>
    /\ pdf2[1].words = <<Word(Hello, 0, 1, 5, 2), Word(There, 6, 0, 11, 1)>>
    /\ Cardinality(SameTexts(pdf1[1].words)) = 2
    /\ left_highlights[1].red = <<<<6, 0, 11, 1>>>>
    /\ right_highlights[1].green = <<<<6, 0, 11, 1>>>>

----------------------------------------------------------------------------
(* One color per side: C20, under Spec *)

\* C20: the highlight map of the left document holds only red rectangles
\* (its "green" list is empty on every page) and that of the right document
\* only green ones (its "red" list is empty on every page), during and after
\* every comparison, and so do the pages of left.pdf and right.pdf.
C20_ColorBySide ==
    /\ \A p \in 1..Len(left_highlights) : left_highlights[p].green = <<>>
    /\ \A p \in 1..Len(right_highlights) : right_highlights[p].red = <<>>
    /\ \A f \in DOMAIN files :
           /\ f[2] = "left.pdf" => \A p \in 1..Len(files[f]) : files[f][p].green = <<>>
           /\ f[2] = "right.pdf" => \A p \in 1..Len(files[f]) : files[f][p].red = <<>>

C20_Witness ==
    /\ Completed
    /\ Len(left_highlights) = 2
    /\ left_highlights[1].red # <<>>
    /\ right_highlights[1].green # <<>>
    /\ right_highlights[2].green # <<>>
    /\ files[PathOf(JOB_ID, "left.pdf")][1].red = left_highlights[1].red
    /\ files[PathOf(JOB_ID, "right.pdf")][2].green = right_highlights[2].green

----------------------------------------------------------------------------
(* The report: C21, under Spec *)

\* a report is this list of changes, as it is, with its counts per page
\* under the keys str(page)
AggregateOf(r, chg) ==
    /\ r.changes = chg
    /\ r.summary.total = Len(chg)
    /\ DOMAIN r.summary.by_page = {Str(chg[k].page) : k \in 1..Len(chg)}
    /\ \A k \in 1..Len(chg) :
           LET OnPage(c) == c.page = chg[k].page
           IN  r.summary.by_page[Str(chg[k].page)] = Len(SelectSeq(chg, OnPage))
    /\ \A key \in DOMAIN r.summary.by_page :
           /\ key # <<>>
           /\ \A x \in 1..Len(key) : key[x] \in 48..57

\* C21: the report's changes are the changes of the line diff, all of them
\* and in their order; summary.by_page has a key for each page with at least
\* one change and no other key, its value is the number of changes of that
\* page, and every key is the page number as a string of digits; report.json
\* holds this report and report.txt one block per change, in the same order.
C21_PureAggregation ==
    /\ report # Unbound => AggregateOf(report, changes)
    /\ pc = "write_json" => AggregateOf(report, AllChanges(input0, input1))
    /\ \A id \in DOMAIN JOB_STORE :
           /\ IsFile(PathOf(id, "report.json")) =>
                  AggregateOf(files[PathOf(id, "report.json")],
                              AllChanges(files[PathOf(id, "input_0.pdf")],
                                         files[PathOf(id, "input_1.pdf")]))
           /\ IsFile(PathOf(id, "report.txt")) =>
                  LET txt == files[PathOf(id, "report.txt")]
                      chg == files[PathOf(id, "report.json")].changes
                  IN  /\ txt.total = Len(chg)
                      /\ Len(txt.blocks) = Len(chg)
                      /\ \A k \in 1..Len(chg) :
                             /\ txt.blocks[k].page = chg[k].page
                             /\ txt.blocks[k].text = chg[k].text
                             /\ txt.blocks[k].label = "Removed" <=> chg[k].type = "remove"

\* page 1 has no change and no key, page 2 has two changes
C21_Witness ==
    /\ Completed
    /\ Len(pdf1) = 2 /\ Len(pdf2) = 2
    /\ pdf1[1] # pdf2[1]
    /\ report.summary.by_page = [key \in {Str(2)} |-> 2]
    /\ report.changes[1].type = "remove" /\ report.changes[2].type = "add"
    /\ files[PathOf(JOB_ID, "report.json")] = report

----------------------------------------------------------------------------
(* Two jobs side by side: C22, under TwiceSpec *)

InputNames == {"input_0.pdf", "input_1.pdf"}

\* the ids whose JOB_STORE entry or files this step writes
Touched ==
    {id \in DOMAIN JOB_STORE' :
        id \notin DOMAIN JOB_STORE \/ JOB_STORE'[id] # JOB_STORE[id]}
    \cup {f[1] : f \in {g \in DOMAIN files' :
                            g \notin DOMAIN files \/ files'[g] # files[g]}}

\* a step writes for one job only: the one the worker is processing (or is
\* taking from the queue), or the one that is being created
WritesOwnJobOnly ==
    \/ Touched = {}
    \/ /\ pc = "get" /\ pc' # "get"
       /\ Touched = {Head(queue)}
    \/ /\ pc # "get" /\ DOMAIN JOB_STORE' = DOMAIN JOB_STORE
       /\ Touched = {job_id}
    \/ /\ DOMAIN JOB_STORE' # DOMAIN JOB_STORE
       /\ Touched = DOMAIN JOB_STORE' \ DOMAIN JOB_STORE
       /\ Cardinality(Touched) = 1

\* every path of a job is in the directory of its own id, every file is in
\* the directory of a job, and what a job has written comes from its own
\* two inputs
OwnDirectory ==
    /\ \A id \in DOMAIN JOB_STORE :
           LET j == JOB_STORE[id]
               in0 == files[PathOf(id, "input_0.pdf")]
               in1 == files[PathOf(id, "input_1.pdf")]
           IN  /\ j.job_id = id
               /\ j.input_paths = <<PathOf(id, "input_0.pdf"), PathOf(id, "input_1.pdf")>>
               /\ j.output_path = PathOf(id, "compare_result.zip")
               /\ \A key \in DOMAIN j.params \ {"input_filenames"} : j.params[key][1] = id
               /\ IsFile(j.input_paths[1]) /\ IsFile(j.input_paths[2])
               /\ IsFile(PathOf(id, "report.json")) =>
                      files[PathOf(id, "report.json")] = BuildReport(AllChanges(in0, in1))
               /\ IsFile(PathOf(id, "left.pdf")) =>
                      files[PathOf(id, "left.pdf")] =
                          MergeHighlightIntoPdf(in0, AllLeftHighlights(in0, in1))
               /\ IsFile(PathOf(id, "right.pdf")) =>
                      files[PathOf(id, "right.pdf")] =
                          MergeHighlightIntoPdf(in1, AllRightHighlights(in0, in1))
    /\ \A f \in DOMAIN files :
           /\ f[1] \in DOMAIN JOB_STORE
           /\ f[2] \in InputNames \cup Artifacts

\* C22: the inputs, report.json, report.txt, left.pdf, right.pdf and the
\* archive of a job are all in the directory of its own job_id and come from
\* its own inputs, and every step of the worker and of POST /compare writes
\* the JOB_STORE entry and the files of one job only, its own.
C22_Isolation ==
    /\ []OwnDirectory
    /\ [][WritesOwnJobOnly]_vars

\* the second job is being processed while the first one has completed
C22_Witness ==
    /\ DOMAIN JOB_STORE = {JOB_ID, JOB_ID_2}
    /\ JOB_STORE[JOB_ID_2].status = COMPLETED
    /\ job_id = JOB_ID
    /\ pc = "zip"
    /\ IsFile(PathOf(JOB_ID, "right.pdf"))
    /\ IsFile(PathOf(JOB_ID_2, "compare_result.zip"))
    /\ Len(changes) = 2

----------------------------------------------------------------------------
(* The pages in any order: C23, under Spec *)

\* the orders in which the page indexes 0 .. n-1 can be gone through
PageOrders(n) ==
    {order \in [1..n -> 0..(n - 1)] :
        \A x, y \in 1..n : order[x] = order[y] => x = y}

\* the line pass with its turns taken in the given order, the first k of them
RECURSIVE LinePassInOrder(_, _, _, _)
LinePassInOrder(order, t1s, t2s, k) ==
    IF k = 0 THEN <<>>
    ELSE LineDiffPage(LinePassInOrder(order, t1s, t2s, k - 1), t1s, t2s, order[k])

\* the change records put together by ascending page, pages 1 .. n
RECURSIVE MergeByPage(_, _)
MergeByPage(chg, n) ==
    IF n = 0 THEN <<>>
    ELSE LET OnPage(c) == c.page = n
         IN  MergeByPage(chg, n - 1) \o SelectSeq(chg, OnPage)

\* the word pass with its turns taken in the given order, the first k of them
RECURSIVE LeftInOrder(_, _, _, _)
LeftInOrder(order, d1, d2, k) ==
    IF k = 0 THEN EmptyHighlights(Len(order))
    ELSE LET ii == order[k]
         IN  [LeftInOrder(order, d1, d2, k - 1) EXCEPT ![ii + 1].red =
                 RedOfOpcodes(WordOpcodes(d1, d2, ii), WordsAt(d1, ii), @)]

RECURSIVE RightInOrder(_, _, _, _)
RightInOrder(order, d1, d2, k) ==
    IF k = 0 THEN EmptyHighlights(Len(order))
    ELSE LET ii == order[k]
         IN  [RightInOrder(order, d1, d2, k - 1) EXCEPT ![ii + 1].green =
                 GreenOfOpcodes(WordOpcodes(d1, d2, ii), WordsAt(d2, ii), @)]

\* the line pass has just made its last turn, and the word pass
LinePassOver == pc = "line_pass" /\ i = max_pages
WordPassOver == pc = "word_pass" /\ i = max_pages

\* C23: the pages can be processed in any order. Whatever the order of the
\* turns of the line pass, its records put together by ascending page are the
\* change list the sequential loop builds, and whatever the order of the
\* turns of the word pass, the per-page highlight lists are those of the
\* sequential loop.
C23_PageIndependence ==
    /\ LinePassOver =>
           \A order \in PageOrders(max_pages) :
               MergeByPage(LinePassInOrder(order, texts1, texts2, max_pages),
                           max_pages) = changes
    /\ WordPassOver =>
           \A order \in PageOrders(max_pages) :
               /\ LeftInOrder(order, input0, input1, max_pages) = left_highlights
               /\ RightInOrder(order, input0, input1, max_pages) = right_highlights

\* two pages, both with changes and with highlighted words
C23_Witness ==
    /\ WordPassOver
    /\ max_pages = 2
    /\ \E x, y \in 1..Len(changes) : changes[x].page = 1 /\ changes[y].page = 2
    /\ left_highlights[1].red # <<>>
    /\ right_highlights[2].green # <<>>

----------------------------------------------------------------------------
(* Run to completion: C24, under FairTwiceSpec *)

StatusOf(id) == IF id \in DOMAIN JOB_STORE THEN JOB_STORE[id].status ELSE None

Finished(id) == StatusOf(id) \in {COMPLETED, FAILED}

\* C24: a compare job the worker has taken from the queue eventually reaches
\* COMPLETED or FAILED and does not stay in PROCESSING, the worker comes back
\* to the head of its loop, and a job waiting on the queue is taken and
\* finished in its turn.
C24_RunToCompletion ==
    /\ \A id \in JobIds : (StatusOf(id) = PROCESSING) ~> Finished(id)
    /\ \A id \in JobIds : (StatusOf(id) = PENDING) ~> Finished(id)
    /\ (pc # "get") ~> (pc = "get")

\* the first job has failed, the worker has gone on to the second one and
\* has completed it
C24_Witness ==
    /\ pc = "get"
    /\ queue = <<>>
    /\ StatusOf(JOB_ID_2) = FAILED
    /\ StatusOf(JOB_ID) = COMPLETED
    /\ job_id = JOB_ID

----------------------------------------------------------------------------
(* What a COMPLETED job carries: C25, under Spec *)

PublishedKeys == {"left_pdf", "right_pdf", "report_path"}

\* C25: whenever the status of a compare job reads COMPLETED, its
\* output_path is the written archive, its output_filename is set, and its
\* params holds left_pdf, right_pdf and report_path, each the path of a
\* written file; so GET /compare/{job_id}/left, /right, /report, GET
\* /download/{job_id} and GET /preview/{job_id} all find their file.
C25_FullyPublished ==
    \A id \in DOMAIN JOB_STORE :
        JOB_STORE[id].status = COMPLETED =>
            /\ JOB_STORE[id].output_path = PathOf(id, "compare_result.zip")
            /\ IsFile(JOB_STORE[id].output_path)
            /\ files[JOB_STORE[id].output_path] = ZipEntries
            /\ JOB_STORE[id].output_filename # None
            /\ PublishedKeys \subseteq DOMAIN JOB_STORE[id].params
            /\ JOB_STORE[id].params["left_pdf"] = PathOf(id, "left.pdf")
            /\ JOB_STORE[id].params["right_pdf"] = PathOf(id, "right.pdf")
            /\ JOB_STORE[id].params["report_path"] = PathOf(id, "report.json")
            /\ \A key \in PublishedKeys : IsFile(JOB_STORE[id].params[key])
            /\ compare_serve_left(id).status_code = 200
            /\ compare_serve_right(id).status_code = 200
            /\ compare_serve_report(id).status_code = 200
            /\ download(id).status_code = 200
            /\ preview(id).status_code = 200

\* a COMPLETED job of two documents of different lengths, every route serving
C25_Witness ==
    /\ Completed
    /\ Len(pdf1) = 1 /\ Len(pdf2) = 2
    /\ compare_serve_left(JOB_ID).status_code = 200
    /\ Len(compare_serve_right(JOB_ID).content) = 2
    /\ download(JOB_ID).filename = JOB_STORE[JOB_ID].output_filename

----------------------------------------------------------------------------
(* What a FAILED job carries: C26, under Spec *)

\* C26: whenever the status of a job reads FAILED, in JOB_STORE and in the
\* answer of GET /jobs/{job_id}, its error field is set to the message of the
\* failure. The except clause writes the status first and the error after
\* it, so this does not hold while the worker is between the two writes.
C26_FailedCarriesError ==
    \A id \in DOMAIN JOB_STORE :
        LET r == job_status(id)
        IN  (r.status_code = 200 /\ r.job.status = FAILED) =>
                /\ r.job.error # None
                /\ id = job_id => r.job.error = exc

----------------------------------------------------------------------------
(* Job types without a branch: C28, under EditSpec *)

UnsupportedErrors(job_type) ==
    {"Unsupported job type: " \o text : text \in FormatJobType(job_type)}

----------------------------------------------------------------------------
(* The ids on the queue: C27, under EditSpec *)

\* C27: every id on the queue, and the id the worker has taken from it, is a
\* key of JOB_STORE, whose entry carries that id; and every id a route has
\* drawn is still a key of JOB_STORE, no entry having been removed. So the
\* lookup JOB_STORE[job_id] of the worker finds its job.
C27_NoUnknownJob ==
    /\ \A k \in 1..Len(queue) : queue[k] \in DOMAIN JOB_STORE
    /\ pc # "get" => job_id \in DOMAIN JOB_STORE
    /\ DOMAIN JOB_STORE = JobIds \ uuids
    /\ \A id \in DOMAIN JOB_STORE : JOB_STORE[id].job_id = id

\* the worker has finished a first job and has just looked up the second
\* one, created by another route
C27_Witness ==
    /\ DOMAIN JOB_STORE = JobIds
    /\ pc = "import"
    /\ job_id = JOB_ID_2
    /\ queue = <<>>
    /\ JOB_STORE[JOB_ID_2].status = PROCESSING
    /\ JOB_STORE[JOB_ID].status = COMPLETED
    /\ JOB_STORE[JOB_ID_2].job_type = "edit_pdf_extract"

----------------------------------------------------------------------------
(* Matched words: C29, under PageSpec *)

\* the total length of the "equal" opcodes
RECURSIVE EqualLength(_)
EqualLength(ops) ==
    IF ops = <<>> THEN 0
    ELSE (IF Head(ops).tag = "equal" THEN Head(ops).i2 - Head(ops).i1 ELSE 0)
         + EqualLength(Tail(ops))

\* the 0-based indexes of the left words whose box went to the red list, and
\* of the right words whose box went to the green list
RedIndexes(ops) ==
    {k \in Nat : \E x \in 1..Len(ops) :
        ops[x].tag \in {"delete", "replace"} /\ k \in ops[x].i1..(ops[x].i2 - 1)}
GreenIndexes(ops) ==
    {k \in Nat : \E x \in 1..Len(ops) :
        ops[x].tag \in {"insert", "replace"} /\ k \in ops[x].j1..(ops[x].j2 - 1)}

\* the texts of the words whose index is not in marked, in word order
RECURSIVE UnmarkedTexts(_, _, _)
UnmarkedTexts(words, marked, n) ==
    IF n = 0 THEN <<>>
    ELSE UnmarkedTexts(words, marked, n - 1)
         \o (IF (n - 1) \in marked THEN <<>> ELSE <<words[n].text>>)

\* C29: on every page the word pass has been through, the left words
\* without a red rectangle are as many as the right words without a green
\* one, both as many as the "equal" opcodes are long in total:
\* len(left words) - |red| = len(right words) - |green|; and the texts of the
\* left words without a rectangle are, in order, the texts of the right
\* words without one.
C29_MatchedWordsBalance ==
    \A p \in 1..WordPagesDone :
        LET wl == DocWords(pdf1, p)
            wr == DocWords(pdf2, p)
            ops == GetOpcodes(WordTexts(wl), WordTexts(wr))
            red == left_highlights[p].red
            green == right_highlights[p].green
            marked_left == {k \in 0..(Len(wl) - 1) : k \in RedIndexes(ops)}
            marked_right == {k \in 0..(Len(wr) - 1) : k \in GreenIndexes(ops)}
        IN  /\ Len(red) = Cardinality(marked_left)
            /\ Len(green) = Cardinality(marked_right)
            /\ Len(wl) - Len(red) = Len(wr) - Len(green)
            /\ Len(wl) - Len(red) = EqualLength(ops)
            /\ UnmarkedTexts(wl, marked_left, Len(wl))
                   = UnmarkedTexts(wr, marked_right, Len(wr))

\* two words against one: one word is matched, the other is red
C29_Witness ==
    /\ pc = "render_left"
    /\ Len(pdf1[1].words) = 2 /\ Len(pdf2[1].words) = 1
    /\ pdf1[1].words[2].text = pdf2[1].words[1].text
    /\ pdf1[1].words[1].text # pdf2[1].words[1].text
    /\ Len(left_highlights[1].red) = 1
    /\ right_highlights[1].green = <<>>

----------------------------------------------------------------------------
(* The shape of the opcode list: C30, under AlignSpec *)

Normalized(ops, la, lb) ==
    /\ \A k \in 1..Len(ops) :
           /\ ~(ops[k].i1 = ops[k].i2 /\ ops[k].j1 = ops[k].j2)
           /\ ops[k].tag = "equal" =>
                  /\ ops[k].i1 < ops[k].i2
                  /\ ops[k].i2 - ops[k].i1 = ops[k].j2 - ops[k].j1
           /\ ops[k].tag # "equal" =>
                  /\ IF k = 1 THEN ops[k].i1 = 0 /\ ops[k].j1 = 0
                     ELSE /\ ops[k - 1].tag = "equal"
                          /\ ops[k].i1 = ops[k - 1].i2 /\ ops[k].j1 = ops[k - 1].j2
                  /\ IF k = Len(ops) THEN ops[k].i2 = la /\ ops[k].j2 = lb
                     ELSE /\ ops[k + 1].tag = "equal"
                          /\ ops[k].i2 = ops[k + 1].i1 /\ ops[k].j2 = ops[k + 1].j1
    /\ \A k \in 1..(Len(ops) - 1) :
           (ops[k].tag = "equal") # (ops[k + 1].tag = "equal")

\* C30: no opcode of the aligner is empty on both sides, no two opcodes in
\* a row are both "equal" and no two in a row are both other than "equal":
\* the two kinds alternate, and every "replace", "delete" or "insert" spans
\* the whole gap between the "equal" opcodes next to it, or up to an end of
\* the sequences.
C30_Normalized ==
    sm_pc = "done" => Normalized(opcodes, Len(seq_a), Len(seq_b))

\* a "replace" between two "equal" opcodes
C30_Witness ==
    /\ sm_pc = "done"
    /\ Len(opcodes) = 3
    /\ opcodes[1].tag = "equal"
    /\ opcodes[2].tag = "replace"
    /\ opcodes[3].tag = "equal"

====
